---- MODULE Spec2Model ----
(***************************************************************************)
(* Conversational query resolution of ut-jira-helper:                      *)
(* ConversationalHelper (frontend/src/utils/conversationalHelper.js).      *)
(*                                                                         *)
(* JavaScript strings are TLA+ strings; substring tests, lower-casing,     *)
(* trimming and the regular expressions of getCreateTaskResponse are       *)
(* computed character by character.  An optional property (assignee,       *)
(* description) is a set: {} when absent, {v} when it holds v.             *)
(* A response text is the record of the template the code fills in and of  *)
(* the values it interpolates.  Array.prototype.filter is SelectSeq.        *)
(***************************************************************************)
EXTENDS Integers, Sequences, FiniteSets, TLC

\* ------------------------------------------------------------------------
\* Bounds of the model
\* ------------------------------------------------------------------------

\* longest task snapshot handed to the constructor
MaxTasks == 3

\* most vocabulary fragments joined into one query
MaxWords == 2

\* the length of the longest task list of LongListSpec
MaxLongList == 40

\* most issues a query of the issues page answers with
MaxIssues == 2

\* ------------------------------------------------------------------------
\* JavaScript values and string primitives
\* ------------------------------------------------------------------------

JsNull == "null"

JsUndefined == "undefined"

\* s[i] as a one-character string
CharAt(s, i) == SubSeq(s, i, i)

\* the lower-case letter of each upper-case letter
LowerCaseOf ==
  [A |-> "a", B |-> "b", C |-> "c", D |-> "d", E |-> "e", F |-> "f", G |-> "g",
   H |-> "h", I |-> "i", J |-> "j", K |-> "k", L |-> "l", M |-> "m", N |-> "n",
   O |-> "o", P |-> "p", Q |-> "q", R |-> "r", S |-> "s", T |-> "t", U |-> "u",
   V |-> "v", W |-> "w", X |-> "x", Y |-> "y", Z |-> "z"]

LowerChar(c) == IF c \in DOMAIN LowerCaseOf THEN LowerCaseOf[c] ELSE c

RECURSIVE toLowerCase(_)
\* String.prototype.toLowerCase
toLowerCase(s) ==
  IF s = "" THEN "" ELSE LowerChar(CharAt(s, 1)) \o toLowerCase(Tail(s))

\* String.prototype.includes
includes(s, sub) ==
  \E i \in 1..(Len(s) - Len(sub) + 1) : SubSeq(s, i, i + Len(sub) - 1) = sub

\* the \s class of a regular expression, and what trim() strips
IsWhiteSpace(c) == c \in {" ", "\t", "\n"}

RECURSIVE trimStart(_)
trimStart(s) ==
  IF s # "" /\ IsWhiteSpace(CharAt(s, 1)) THEN trimStart(Tail(s)) ELSE s

RECURSIVE trimEnd(_)
trimEnd(s) ==
  IF s # "" /\ IsWhiteSpace(CharAt(s, Len(s)))
  THEN trimEnd(SubSeq(s, 1, Len(s) - 1))
  ELSE s

\* String.prototype.trim
trim(s) == trimEnd(trimStart(s))

\* counts.reduce((counts, k) => { counts[k] = (counts[k] || 0) + 1 }, {}) followed by
\* Object.entries: the <<key, count>> pairs in the order the keys were first met
RECURSIVE countInto(_, _)
countInto(entries, keys) ==
  IF keys = <<>> THEN entries
  ELSE LET k == Head(keys)
           seen == \E i \in 1..Len(entries) : entries[i][1] = k
       IN  IF seen
           THEN countInto([i \in 1..Len(entries) |->
                             IF entries[i][1] = k
                             THEN <<k, entries[i][2] + 1>>
                             ELSE entries[i]],
                          Tail(keys))
           ELSE countInto(Append(entries, <<k, 1>>), Tail(keys))

\* a count that notes each key once however often it occurs
countEntries_CountsKeysOnce(keys) ==
  LET entries == countInto(<<>>, keys)
  IN  [i \in 1..Len(entries) |-> <<entries[i][1], 1>>]

countEntries(keys) == countInto(<<>>, keys)

\* ------------------------------------------------------------------------
\* Task snapshots (the constructor's argument) and queries
\* ------------------------------------------------------------------------

\* tasks that conform to the data model: string id, title and status,
\* optional assignee (an e-mail address or a name) and description
TaskPool ==
  { [id |-> "J-1", title |-> "Fix login bug", status |-> "In Progress",
     assignee |-> {"user1@example.com"}, description |-> {}],
    [id |-> "J-2", title |-> "Update docs", status |-> "To Do",
     assignee |-> {"user2@example.com"}, description |-> {"Describe the login page"}],
    [id |-> "J-3", title |-> "Ship release", status |-> "Done",
     assignee |-> {}, description |-> {}],
    [id |-> "J-4", title |-> "Plan sprint", status |-> "Done",
     assignee |-> {"user10@example.com"}, description |-> {}] }

\* the snapshots: every list of at most MaxTasks distinct tasks of the pool
TaskSnapshots ==
  { ts \in UNION { [1..n -> TaskPool] : n \in 0..MaxTasks } :
      \A i, j \in 1..Len(ts) : i # j => ts[i].id # ts[j].id }

\* fragments queries are built from: keywords of the rules of getLocalResponse
\* and a term some tasks match
Vocabulary ==
  { "Create", "done", "user1", "weekly resolved", "urgent", "?", "login" }

RECURSIVE joinWords(_)
joinWords(ws) ==
  IF ws = <<>> THEN ""
  ELSE IF Len(ws) = 1 THEN ws[1]
  ELSE ws[1] \o " " \o joinWords(Tail(ws))

\* the remaining keywords, the queries of the documentation and of the quick
\* actions, and queries that meet the keywords of two rules
SampleQueries ==
  { "", " ", "add", "new task", "working on", "to do", "todo", "pending",
    "completed", "finished", "summary", "overview", "user2", "average resolved",
    "resolved per week", "in progress", "status", "workload", "how many", "count", "priority", "important",
    "help", "what can", "zzz", "J-1", "address book", "is it a?b",
    "What's in progress?", "What needs to be done?", "Show me completed tasks",
    "Give me a summary", "What's user1 working on?", "Find login tasks",
    "Show workload distribution", "weekly resolved for user1",
    "weekly resolved for user2", "create task: fix urgent bug",
    "create task: Fix login bug", "create task: ", "Add task: Update documentation.",
    "create task: Bump v1.2",
    "in progress status", "todo done", "pending user2", "status user1",
    "user2 user1", "how many urgent", "URGENT help" }

Queries ==
  SampleQueries \cup
  { joinWords(ws) : ws \in UNION { [1..n -> Vocabulary] : n \in 1..MaxWords } }

\* ------------------------------------------------------------------------
\* Response texts
\* ------------------------------------------------------------------------

\* the literal each pattern of createPatterns starts with (matched with /i)
createPatterns == << "create task", "add task", "new task", "create" >>

\* the class [:\s]
IsSeparator(c) == c = ":" \/ IsWhiteSpace(c)

\* the class [^.!?]
IsTitleChar(c) == c \notin {".", "!", "?"}

RECURSIVE separatorsEnd(_, _)
\* [:\s]+ is greedy: the first position at or after j that holds no separator
separatorsEnd(s, j) ==
  IF j <= Len(s) /\ IsSeparator(CharAt(s, j)) THEN separatorsEnd(s, j + 1) ELSE j

RECURSIVE captureEnd(_, _)
\* ([^.!?]*) is greedy: the first position at or after j that holds '.', '!' or '?'
captureEnd(s, j) ==
  IF j <= Len(s) /\ IsTitleChar(CharAt(s, j)) THEN captureEnd(s, j + 1) ELSE j

\* the positions at which /<literal>[:\s]+([^.!?]*)/i matches
matchStarts(s, literal) ==
  LET lower == toLowerCase(s)
  IN  { i \in 1..Len(s) :
          /\ i + Len(literal) <= Len(s)
          /\ SubSeq(lower, i, i + Len(literal) - 1) = literal
          /\ IsSeparator(CharAt(s, i + Len(literal))) }

\* query.match(pattern): {} for null, else {match[1]} of the leftmost match
match(s, literal) ==
  IF matchStarts(s, literal) = {} THEN {}
  ELSE LET i == CHOOSE k \in matchStarts(s, literal) :
                  \A m \in matchStarts(s, literal) : k <= m
           j == separatorsEnd(s, i + Len(literal))
       IN  { SubSeq(s, j, captureEnd(s, j) - 1) }

RECURSIVE extractTaskTitle(_, _)
\* the loop over createPatterns from pattern k on: the trimmed group of the
\* first pattern that matches with a non-empty group, '' when there is none
extractTaskTitle(query, k) ==
  IF k > Len(createPatterns) THEN ""
  ELSE LET m == match(query, createPatterns[k])
       IN  IF m # {} /\ m # {""}
           THEN trim(CHOOSE g \in m : TRUE)
           ELSE extractTaskTitle(query, k + 1)

getCreateTaskResponse(query) ==
  LET taskTitle == extractTaskTitle(query, 1)
  IN  IF taskTitle # ""
      THEN [template |-> "create: here's what I understood", taskTitle |-> taskTitle]
      ELSE [template |-> "create: what task would you like to create?"]

\* the `id: title` lines a status response lists
taskLines(ts) == [i \in 1..Len(ts) |-> <<ts[i].id, ts[i].title>>]

getInProgressResponse(tasks) ==
  LET inProgressTasks == SelectSeq(tasks, LAMBDA task : task.status = "In Progress")
  IN  IF Len(inProgressTasks) = 0
      THEN [template |-> "no tasks currently in progress"]
      ELSE [template |-> "tasks in progress", count |-> Len(inProgressTasks),
            taskList |-> taskLines(inProgressTasks)]

getToDoResponse(tasks) ==
  LET todoTasks == SelectSeq(tasks, LAMBDA task : task.status = "To Do")
  IN  IF Len(todoTasks) = 0
      THEN [template |-> "no pending tasks"]
      ELSE [template |-> "tasks waiting to be started", count |-> Len(todoTasks),
            taskList |-> taskLines(todoTasks)]

getDoneResponse(tasks) ==
  LET doneTasks == SelectSeq(tasks, LAMBDA task : task.status = "Done")
  IN  IF Len(doneTasks) = 0
      THEN [template |-> "no tasks completed yet"]
      ELSE [template |-> "tasks completed", count |-> Len(doneTasks),
            taskList |-> taskLines(doneTasks)]

\* the count Object.entries(counts) holds for key, 0 (counts[key] undefined) if none
countOf(entries, key) ==
  IF \E i \in 1..Len(entries) : entries[i][1] = key
  THEN entries[CHOOSE i \in 1..Len(entries) : entries[i][1] = key][2]
  ELSE 0

\* The percentage is computed in IEEE 754 double precision. A double of
\* (0, 1] is its 53-bit significand, held in limbs of 14, 14, 14 and 11 bits,
\* and the number of zero bits between the binary point and the first one
\* bit: its value is significand * 2^-(zeros + 53).

RECURSIVE leadingZeros(_, _)
\* the number of zero bits that open the binary expansion of r / q
leadingZeros(r, q) == IF 2 * r >= q THEN 0 ELSE 1 + leadingZeros(2 * r, q)

\* the double p / q for 0 < p <= q: the first 53 significant bits of the
\* quotient by long division, rounded to nearest, ties to even
divide(p, q) ==
  LET zeros == leadingZeros(p, q)
      r0 == p * 2^zeros
      d1 == (r0 * 2^14) \div q
      r1 == (r0 * 2^14) % q
      d2 == (r1 * 2^14) \div q
      r2 == (r1 * 2^14) % q
      d3 == (r2 * 2^14) \div q
      r3 == (r2 * 2^14) % q
      d4 == (r3 * 2^11) \div q
      r4 == (r3 * 2^11) % q
      up == 2 * r4 >= q /\ ((2 * r4) % q # 0 \/ d4 % 2 = 1)
      s4 == d4 + (IF up THEN 1 ELSE 0)
      s3 == d3 + (s4 \div 2^11)
      s2 == d2 + (s3 \div 2^14)
      s1 == d1 + (s2 \div 2^14)
  IN  [zeros |-> zeros, limbs |-> <<s1, s2 % 2^14, s3 % 2^14, s4 % 2^11>>]

\* the double a * 100: the exact product, rounded to 53 significant bits
\* (nearest, ties to even); its value is (units + fraction / 2^53) * 2^-zeros
times100(a) ==
  LET t4 == 100 * a.limbs[4]
      t3 == (100 * a.limbs[3]) + (t4 \div 2^11)
      t2 == (100 * a.limbs[2]) + (t3 \div 2^14)
      t1 == (100 * a.limbs[1]) + (t2 \div 2^14)
      e4 == t4 % 2^11
      units == t1 \div 2^14
      k == IF units >= 64 THEN 7 ELSE 6
      dropped == e4 % 2^k
      up == dropped >= 2^(k - 1)
              /\ (dropped % 2^(k - 1) # 0 \/ (e4 \div 2^k) % 2 = 1)
      f4 == e4 - dropped + (IF up THEN 2^k ELSE 0)
      f3 == (t3 % 2^14) + (f4 \div 2^11)
      f2 == (t2 % 2^14) + (f3 \div 2^14)
      f1 == (t1 % 2^14) + (f2 \div 2^14)
  IN  [zeros |-> a.zeros, units |-> units + (f1 \div 2^14),
       fraction |-> <<f1 % 2^14, f2 % 2^14, f3 % 2^14, f4 % 2^11>>]

\* Math.round of a positive double: the integer part, plus one if the
\* fractional part is at least one half
MathRound(x) ==
  IF x.zeros = 0
  THEN x.units + (IF x.fraction[1] >= 2^13 THEN 1 ELSE 0)
  ELSE (x.units \div 2^(x.zeros))
         + (IF x.units % 2^(x.zeros) >= 2^(x.zeros - 1) THEN 1 ELSE 0)

\* Math.round((p / q) * 100) for 0 < p <= q
roundPercent(p, q) == MathRound(times100(divide(p, q)))

getSummaryResponse(tasks) ==
  LET statusCounts == countEntries([i \in 1..Len(tasks) |-> tasks[i].status])
      total == Len(tasks)
  IN  IF countOf(statusCounts, "Done") # 0
      THEN [template |-> "project overview", total |-> total,
            statusLines |-> statusCounts,
            completion |-> {roundPercent(countOf(statusCounts, "Done"), total)}]
      ELSE [template |-> "project overview", total |-> total,
            statusLines |-> statusCounts, completion |-> {}]

getAssigneeResponse(tasks, assignee) ==
  LET userTasks == SelectSeq(tasks, LAMBDA task : task.assignee = {assignee})
  IN  IF Len(userTasks) = 0
      THEN [template |-> "no tasks assigned", assignee |-> assignee]
      ELSE [template |-> "tasks assigned", assignee |-> assignee,
            count |-> Len(userTasks),
            statusLines |->
              countEntries([i \in 1..Len(userTasks) |-> userTasks[i].status])]

getWorkloadResponse(tasks) ==
  LET assigned == SelectSeq(tasks, LAMBDA task : task.assignee # {})
      assigneeCounts ==
        countEntries([i \in 1..Len(assigned) |->
                        CHOOSE a \in assigned[i].assignee : TRUE])
  IN  IF Len(assigneeCounts) = 0
      THEN [template |-> "no tasks assigned to anyone"]
      ELSE [template |-> "workload distribution", assigneeLines |-> assigneeCounts]

getPriorityResponse(tasks) ==
  LET urgentTasks == SelectSeq(tasks, LAMBDA task : task.status = "In Progress")
  IN  IF Len(urgentTasks) = 0
      THEN [template |-> "nothing is immediately urgent"]
      ELSE [template |-> "most urgent items", count |-> Len(urgentTasks)]

getSearchResultsResponse(query, results) ==
  IF Len(results) = 1
  THEN [template |-> "found one task", query |-> query, task |-> results[1]]
  ELSE [template |-> "found tasks", query |-> query, count |-> Len(results),
        taskList |-> SubSeq(results, 1, IF Len(results) < 3 THEN Len(results) ELSE 3),
        remaining |-> IF Len(results) > 3 THEN Len(results) - 3 ELSE 0]

getHelpResponse == [template |-> "help"]

getDefaultResponse(query) == [template |-> "not sure how to help", query |-> query]

\* ------------------------------------------------------------------------
\* The Task Summary widget of the dashboard
\* ------------------------------------------------------------------------

\* what the Task Summary widget shows: the count of each status, 'Unknown'
\* for a task without one, and the total
TaskSummaryWidget(tasks) ==
  [statusCounts |->
     countEntries([i \in 1..Len(tasks) |->
                    IF tasks[i].status = "" THEN "Unknown" ELSE tasks[i].status]),
   totalTasks |-> Len(tasks)]

\* ------------------------------------------------------------------------
\* Local resolution
\* ------------------------------------------------------------------------

\* a search that does not look at the assignee
searchTasks_SkipsAssignee(tasks, query) ==
  LET lowerQuery == toLowerCase(query)
  IN  SelectSeq(tasks, LAMBDA task :
        \/ includes(toLowerCase(task.title), lowerQuery)
        \/ \E d \in task.description : includes(toLowerCase(d), lowerQuery)
        \/ includes(toLowerCase(task.id), lowerQuery)
        \/ includes(toLowerCase(task.status), lowerQuery))

searchTasks(tasks, query) ==
  LET lowerQuery == toLowerCase(query)
  IN  SelectSeq(tasks, LAMBDA task :
        \/ includes(toLowerCase(task.title), lowerQuery)
        \/ \E d \in task.description : includes(toLowerCase(d), lowerQuery)
        \/ includes(toLowerCase(task.id), lowerQuery)
        \/ includes(toLowerCase(task.status), lowerQuery)
        \/ \E a \in task.assignee : includes(toLowerCase(a), lowerQuery))

\* lowerQuery.includes(k1) || lowerQuery.includes(k2) || ...
includesAny(lowerQuery, keywords) == \E k \in keywords : includes(lowerQuery, k)

\* the assignee handleWeeklyResolvedQuery extracts from the query, {} for null
weeklyAssignee(query) ==
  LET lowerQuery == toLowerCase(query)
  IN  IF includesAny(lowerQuery, {"user1", "for user1"}) THEN {"user1@example.com"}
      ELSE IF includesAny(lowerQuery, {"user2", "for user2"}) THEN {"user2@example.com"}
      ELSE {}

\* the request handleWeeklyResolvedQuery sends: the endpoint and the assignee
\* parameter ({} when the URL carries no query string)
weeklyApiUrl(query) ==
  [path |-> "/api/tasks/analytics/weekly-resolved", assignee |-> weeklyAssignee(query)]

\* the pending promise handleWeeklyResolvedQuery returns at its first await
weeklyPromise(query) ==
  [promise |-> "handleWeeklyResolvedQuery", apiUrl |-> weeklyApiUrl(query)]

IsPromise(value) == "promise" \in DOMAIN value

\* the object each branch of getLocalResponse returns

createTaskBranch(query) ==
  [text |-> getCreateTaskResponse(query),
   taskCount |-> 0,
   suggestedActions |-> <<"Set assignee", "Add description", "Create task via API">>,
   chartRecommendation |-> JsNull]

\* the in-progress branch counting every task of the snapshot
inProgressBranch_CountsAllTasks(tasks) ==
  [text |-> getInProgressResponse(tasks),
   taskCount |-> Len(tasks),
   suggestedActions |-> <<"View task details", "Update status", "Mark as done">>,
   chartRecommendation |-> "timeline"]

inProgressBranch(tasks) ==
  [text |-> getInProgressResponse(tasks),
   taskCount |-> Len(SelectSeq(tasks, LAMBDA task : task.status = "In Progress")),
   suggestedActions |-> <<"View task details", "Update status", "Mark as done">>,
   chartRecommendation |-> "timeline"]

toDoBranch(tasks) ==
  [text |-> getToDoResponse(tasks),
   taskCount |-> Len(SelectSeq(tasks, LAMBDA task : task.status = "To Do")),
   suggestedActions |-> <<"Start working", "Assign tasks", "Prioritize">>,
   chartRecommendation |-> "table"]

\* the done branch recommending the chart of the workload branch
doneBranch_BarChart(tasks) ==
  [text |-> getDoneResponse(tasks),
   taskCount |-> Len(SelectSeq(tasks, LAMBDA task : task.status = "Done")),
   suggestedActions |-> <<"View completed", "Archive tasks", "Generate report">>,
   chartRecommendation |-> "bar"]

doneBranch(tasks) ==
  [text |-> getDoneResponse(tasks),
   taskCount |-> Len(SelectSeq(tasks, LAMBDA task : task.status = "Done")),
   suggestedActions |-> <<"View completed", "Archive tasks", "Generate report">>,
   chartRecommendation |-> "pie"]

summaryBranch(tasks) ==
  [text |-> getSummaryResponse(tasks),
   taskCount |-> Len(tasks),
   suggestedActions |-> <<"Show pie chart", "View detailed breakdown", "Export data">>,
   chartRecommendation |-> "pie"]

user1Branch(tasks) ==
  [text |-> getAssigneeResponse(tasks, "user1@example.com"),
   taskCount |->
     Len(SelectSeq(tasks, LAMBDA task : \E a \in task.assignee : includes(a, "user1"))),
   suggestedActions |-> <<"View user tasks", "Check workload", "Reassign tasks">>,
   chartRecommendation |-> "bar"]

user2Branch(tasks) ==
  [text |-> getAssigneeResponse(tasks, "user2@example.com"),
   taskCount |->
     Len(SelectSeq(tasks, LAMBDA task : \E a \in task.assignee : includes(a, "user2"))),
   suggestedActions |-> <<"View user tasks", "Check workload", "Reassign tasks">>,
   chartRecommendation |-> "bar"]

workloadBranch(tasks) ==
  [text |-> getWorkloadResponse(tasks),
   taskCount |-> Len(tasks),
   suggestedActions |->
     <<"Show bar chart", "Balance workload", "View individual assignments">>,
   chartRecommendation |-> "bar"]

priorityBranch(tasks) ==
  [text |-> getPriorityResponse(tasks),
   taskCount |-> Len(tasks),
   suggestedActions |-> <<"Filter by priority", "View urgent tasks", "Sort by importance">>,
   chartRecommendation |-> "bar"]

helpBranch(tasks) ==
  [text |-> getHelpResponse,
   taskCount |-> Len(tasks),
   suggestedActions |-> <<"Try sample query", "View task summary", "Create new task">>,
   chartRecommendation |-> JsNull]

\* the search fallback: the search result, or the default response if nothing matches
searchFallback(tasks, query) ==
  LET searchResults == searchTasks(tasks, query)
  IN  IF Len(searchResults) > 0 THEN
        [text |-> getSearchResultsResponse(query, searchResults),
         taskCount |-> Len(searchResults),
         suggestedActions |-> <<"View task details", "Refine search", "Filter results">>,
         chartRecommendation |-> "table"]
      ELSE
        [text |-> getDefaultResponse(query),
         taskCount |-> 0,
         suggestedActions |-> <<"Ask for help", "Try different query", "View all tasks">>,
         chartRecommendation |-> JsNull]

\* getLocalResponse with the priority rule tested before the creation rule
getLocalResponse_PriorityFirst(tasks, query) ==
  LET lowerQuery == toLowerCase(query)
  IN  IF includesAny(lowerQuery, {"urgent", "priority", "important"})
        THEN priorityBranch(tasks)
      ELSE IF includesAny(lowerQuery, {"create", "add", "new task"})
        THEN createTaskBranch(query)
      ELSE IF includesAny(lowerQuery, {"in progress", "working on"})
        THEN inProgressBranch(tasks)
      ELSE IF includesAny(lowerQuery, {"to do", "todo", "pending"})
        THEN toDoBranch(tasks)
      ELSE IF includesAny(lowerQuery, {"done", "completed", "finished"})
        THEN doneBranch(tasks)
      ELSE IF includesAny(lowerQuery, {"summary", "overview", "status"})
        THEN summaryBranch(tasks)
      ELSE IF includesAny(lowerQuery, {"user1", "assigned to user1"})
        THEN user1Branch(tasks)
      ELSE IF includesAny(lowerQuery, {"user2", "assigned to user2"})
        THEN user2Branch(tasks)
      ELSE IF includesAny(lowerQuery,
                          {"average resolved", "weekly resolved", "resolved per week"})
        THEN weeklyPromise(query)
      ELSE IF includesAny(lowerQuery, {"workload", "how many", "count"})
        THEN workloadBranch(tasks)
      ELSE IF includesAny(lowerQuery, {"help", "what can", "?"})
        THEN helpBranch(tasks)
      ELSE searchFallback(tasks, query)

\* the value getLocalResponse returns: a result object, or (weekly resolved
\* queries) the promise of handleWeeklyResolvedQuery
getLocalResponse(tasks, query) ==
  LET lowerQuery == toLowerCase(query)
  IN  IF includesAny(lowerQuery, {"create", "add", "new task"})
        THEN createTaskBranch(query)
      ELSE IF includesAny(lowerQuery, {"in progress", "working on"})
        THEN inProgressBranch(tasks)
      ELSE IF includesAny(lowerQuery, {"to do", "todo", "pending"})
        THEN toDoBranch(tasks)
      ELSE IF includesAny(lowerQuery, {"done", "completed", "finished"})
        THEN doneBranch(tasks)
      ELSE IF includesAny(lowerQuery, {"summary", "overview", "status"})
        THEN summaryBranch(tasks)
      ELSE IF includesAny(lowerQuery, {"user1", "assigned to user1"})
        THEN user1Branch(tasks)
      ELSE IF includesAny(lowerQuery, {"user2", "assigned to user2"})
        THEN user2Branch(tasks)
      ELSE IF includesAny(lowerQuery,
                          {"average resolved", "weekly resolved", "resolved per week"})
        THEN weeklyPromise(query)
      ELSE IF includesAny(lowerQuery, {"workload", "how many", "count"})
        THEN workloadBranch(tasks)
      ELSE IF includesAny(lowerQuery, {"urgent", "priority", "important"})
        THEN priorityBranch(tasks)
      ELSE IF includesAny(lowerQuery, {"help", "what can", "?"})
        THEN helpBranch(tasks)
      ELSE searchFallback(tasks, query)

\* ------------------------------------------------------------------------
\* Network replies
\* ------------------------------------------------------------------------

\* how a fetch settles: the promise rejects (network error), the response has a
\* non-OK status, response.json() rejects, the body is the JSON value null, or
\* the body is a JSON object (value: its properties)
Reply(outcome, value) == [outcome |-> outcome, value |-> value]

NoReply == Reply("pending", <<>>)

FailedReplies ==
  { Reply("rejected", <<>>), Reply("not ok", <<>>),
    Reply("unparseable", <<>>), Reply("json null", <<>>) }

\* obj[key] of a JSON object, undefined when the property is missing
get(obj, key) == IF key \in DOMAIN obj THEN obj[key] ELSE JsUndefined

\* AnalyticsResult bodies: a window with no resolved task and one with three
AnalyticsBodies ==
  { [average_per_week |-> 0, total_resolved |-> 0, weeks_analyzed |-> 4,
     weekly_breakdown |-> << <<"Week 1", 0>>, <<"Week 2", 0>>,
                             <<"Week 3", 0>>, <<"Week 4", 0>> >>],
    [average_per_week |-> 1, total_resolved |-> 4, weeks_analyzed |-> 4,
     weekly_breakdown |-> << <<"Week 1", 1>>, <<"Week 2", 0>>,
                             <<"Week 3", 2>>, <<"Week 4", 1>> >>] }

\* what GET /api/tasks/analytics/weekly-resolved may answer; <<>> is the body {}
AnalyticsReplies ==
  FailedReplies \cup { Reply("json object", b) : b \in AnalyticsBodies \cup {<<>>} }

\* what POST /api/ai/query may answer; <<>> is the body {}
AiBodies ==
  { [response |-> "You have 1 task in progress.", task_count |-> 1,
     suggested_actions |-> <<"View task details">>, chart_recommendation |-> "timeline"],
    [response |-> "Weekly resolved tasks", task_count |-> 4,
     suggested_actions |-> <<"Export analytics">>, chart_recommendation |-> "weekly_trend",
     chart_data |-> [average_per_week |-> 1, total_resolved |-> 4, weeks_analyzed |-> 4,
                     weekly_breakdown |-> << <<"Week 1", 1>>, <<"Week 2", 0>>,
                                             <<"Week 3", 2>>, <<"Week 4", 1>> >>]],
    <<>> }

\* the static list the first version of the App shows instead of fetching
mockTasks ==
  << [id |-> "JIRA-1", title |-> "Implement login page", status |-> "In Progress",
      assignee |-> {}, description |-> {}],
     [id |-> "JIRA-2", title |-> "Fix navigation bug", status |-> "To Do",
      assignee |-> {}, description |-> {}],
     [id |-> "JIRA-3", title |-> "Update documentation", status |-> "Done",
      assignee |-> {}, description |-> {}] >>

\* a long task list: d tasks that are done followed by n - d that are under way
StatusList(d, n) ==
  [i \in 1..n |->
     [id |-> "T-" \o ToString(i), title |-> "Task " \o ToString(i),
      status |-> IF i <= d THEN "Done" ELSE "In Progress",
      assignee |-> {}, description |-> {}]]

\* the long task lists GET /api/tasks answers with
LongSnapshots ==
  UNION { { StatusList(d, n) : d \in 0..n } : n \in 1..MaxLongList }

\* how GET /api/tasks settles: axios rejects (network error, or a status
\* outside 2xx), or the response carries a task list
TaskListReplies ==
  {Reply("rejected", <<>>), Reply("not ok", <<>>)}
    \cup { Reply("ok", ts) : ts \in TaskSnapshots }

AiReplies == FailedReplies \cup { Reply("json object", b) : b \in AiBodies }

\* ------------------------------------------------------------------------
\* getResponse and handleWeeklyResolvedQuery
\* ------------------------------------------------------------------------

\* how a block of statements completes: it returns a value or it throws
Return(value) == [type |-> "return", value |-> value]

Throw == [type |-> "throw", value |-> <<>>]

\* the request getResponse sends
aiRequest(query) ==
  [path |-> "/api/ai/query", method |-> "POST",
   body |-> [query |-> query, context |-> "Frontend search widget"]]

\* the object getResponse builds from the backend's answer
remoteResult(body) ==
  [text |-> get(body, "response"),
   taskCount |-> get(body, "task_count"),
   suggestedActions |-> get(body, "suggested_actions"),
   chartRecommendation |-> get(body, "chart_recommendation")]

\* the try block of getResponse, resumed when its fetch has settled with reply
getResponseTry(tasks, query, reply) ==
  IF reply.outcome = "rejected" THEN Throw
  ELSE IF reply.outcome = "not ok" THEN Return(getLocalResponse(tasks, query))
  ELSE IF reply.outcome = "unparseable" THEN Throw
  ELSE IF reply.outcome = "json null" THEN Throw
  ELSE Return(remoteResult(reply.value))

\* getResponse without its catch clause: an exception of the try block escapes
getResponse_NoCatch(tasks, query, reply) == getResponseTry(tasks, query, reply)

\* getResponse from its await on: the try block and its catch clause
getResponse(tasks, query, reply) ==
  LET attempt == getResponseTry(tasks, query, reply)
  IN  IF attempt.type = "throw"
      THEN Return(getLocalResponse(tasks, query))
      ELSE attempt

\* the text handleWeeklyResolvedQuery builds from the analytics
weeklyText(assignee, analytics) ==
  [template |-> "weekly resolved tasks analysis",
   assigneeText |-> assignee,
   average |-> get(analytics, "average_per_week"),
   totalResolved |-> get(analytics, "total_resolved"),
   weeks |-> get(analytics, "weeks_analyzed"),
   breakdown |-> analytics.weekly_breakdown,
   closing |-> IF analytics.total_resolved > 0
               THEN "keep up the great work"
               ELSE "consider reviewing task completion workflow"]

\* the try block of handleWeeklyResolvedQuery, resumed when its fetch has
\* settled with reply
handleWeeklyTry(query, reply) ==
  IF reply.outcome = "rejected" THEN Throw
  ELSE IF reply.outcome = "not ok" THEN Throw
  ELSE IF reply.outcome = "unparseable" THEN Throw
  ELSE IF reply.outcome = "json null" THEN Throw
  ELSE IF "weekly_breakdown" \notin DOMAIN reply.value THEN Throw
  ELSE Return([text |-> weeklyText(weeklyAssignee(query), reply.value),
               taskCount |-> get(reply.value, "total_resolved"),
               suggestedActions |->
                 <<"View detailed breakdown", "Export analytics", "Compare assignees">>,
               chartRecommendation |-> "weekly_trend",
               chartData |-> reply.value])

\* the object the catch clause of handleWeeklyResolvedQuery returns
weeklyFallback ==
  [text |-> [template |-> "couldn't fetch the weekly resolved analytics"],
   taskCount |-> 0,
   suggestedActions |-> <<"Try again", "Check connection">>,
   chartRecommendation |-> JsNull]

\* handleWeeklyResolvedQuery without its catch clause
handleWeeklyResolvedQuery_NoCatch(query, reply) == handleWeeklyTry(query, reply)

\* handleWeeklyResolvedQuery from its await on: the try block and its catch clause
handleWeeklyResolvedQuery(query, reply) ==
  LET attempt == handleWeeklyTry(query, reply)
  IN  IF attempt.type = "throw" THEN Return(weeklyFallback) ELSE attempt

\* ------------------------------------------------------------------------
\* The issues page: the data of the trend chart
\* ------------------------------------------------------------------------

\* Time is counted in hours: an instant is the number of hours since the
\* epoch, and a date string of an issue stands for the instant it denotes.

\* 7 * 24 * 60 * 60 * 1000 milliseconds
Week == 7 * 24

\* the instant the issues page is opened
Today == 5 * Week

\* the instants new Date() can give while the page is open
Clock == { Today, Today + 1 }

\* issues as the backend lists them; every date is optional, and so are
\* assignee and priority
IssuePool ==
  { [key |-> "UT-1", status |-> "Done", assignee |-> {"user1@example.com"},
     priority |-> {"High"},
     created_date |-> {Today - 4 * Week}, updated_date |-> {Today - 3 * Week - 1},
     start_date |-> {Today - 4 * Week + 1}, due_date |-> {Today + Week - 1},
     resolved_date |-> {Today - 3 * Week - 1}],
    [key |-> "UT-2", status |-> "In Progress", assignee |-> {"user2"},
     priority |-> {},
     created_date |-> {Today - 3 * Week}, updated_date |-> {Today - 1},
     start_date |-> {Today - 2 * Week}, due_date |-> {Today + Week},
     resolved_date |-> {}],
    [key |-> "UT-3", status |-> "Done", assignee |-> {},
     priority |-> {"Low"},
     created_date |-> {Today - Week}, updated_date |-> {Today},
     start_date |-> {Today - Week - 1}, due_date |-> {Today - 5 * Week},
     resolved_date |-> {Today - 1}],
    [key |-> "UT-4", status |-> "To Do", assignee |-> {"user1@example.com"},
     priority |-> {"High"},
     created_date |-> {Today - 2 * Week}, updated_date |-> {Today - 2 * Week},
     start_date |-> {}, due_date |-> {Today},
     resolved_date |-> {Today - 3 * Week}] }

\* the issue lists a query can answer with
IssueLists ==
  { list \in UNION { [1..n -> IssuePool] : n \in 0..MaxIssues } :
      \A i, j \in 1..Len(list) : i # j => list[i].key # list[j].key }

\* the options of the 'Group by' select
ChartGroupings ==
  { "duedate", "startdate", "created", "updated", "resolved",
    "status", "assignee", "priority" }

\* the groupings by week
DateGroupings == { "duedate", "startdate", "created", "updated", "resolved" }

\* the date a grouping by week reads: {} when the issue has none
dateOf(issue, groupBy) ==
  CASE groupBy = "duedate" -> issue.due_date
    [] groupBy = "startdate" -> issue.start_date
    [] groupBy = "created" -> issue.created_date
    [] groupBy = "updated" -> issue.updated_date
    [] groupBy = "resolved" -> issue.resolved_date

\* toLocaleDateString('en-US', {month: 'short', day: 'numeric'}): the day,
\* without the time of day
toLocaleDateString(instant) == instant \div 24

\* the start of the week the loop over i = 0..3 tests
weekStart(now, i) == now - ((3 - i) * Week)

\* the index of the bucket a date is counted in: the first i of 0..3 with
\* weekStart <= date < weekEnd, {} when there is none
bucketOf(date, now) ==
  LET hits == { i \in 0..3 :
                  date >= weekStart(now, i) /\ date < weekStart(now, i) + Week }
  IN  IF hits = {} THEN {}
      ELSE { CHOOSE i \in hits : \A j \in hits : i <= j }

\* the labels and the counts of a grouping by week
weekBuckets(issues, groupBy, now) ==
  [labels |-> [j \in 1..4 |-> toLocaleDateString(now - ((4 - j) * Week))],
   buckets |->
     [j \in 1..4 |->
        Cardinality({ k \in 1..Len(issues) :
                       \E date \in dateOf(issues[k], groupBy) :
                         bucketOf(date, now) = {j - 1} })]]

RECURSIVE beforeAt(_)
\* assignee.split('@')[0]
beforeAt(s) ==
  IF s = "" \/ CharAt(s, 1) = "@" THEN "" ELSE CharAt(s, 1) \o beforeAt(Tail(s))

\* the key an issue is counted under by status, assignee or priority
groupKey(issue, groupBy) ==
  CASE groupBy = "status" ->
         IF issue.status = "" THEN "Unknown" ELSE issue.status
    [] groupBy = "assignee" ->
         IF issue.assignee = {} THEN "Unassigned"
         ELSE LET assignee == CHOOSE a \in issue.assignee : TRUE
              IN  IF includes(assignee, "@") THEN beforeAt(assignee) ELSE assignee
    [] groupBy = "priority" ->
         IF issue.priority = {} THEN "No Priority"
         ELSE CHOOSE pr \in issue.priority : TRUE

\* the labels and the counts of a grouping by status, assignee or priority
keyBuckets(issues, groupBy) ==
  LET counts == countEntries([k \in 1..Len(issues) |-> groupKey(issues[k], groupBy)])
  IN  [labels |-> [j \in 1..Len(counts) |-> counts[j][1]],
       buckets |-> [j \in 1..Len(counts) |-> counts[j][2]]]

chartTitle(groupBy) ==
  CASE groupBy = "duedate" -> "Issues Due by Week"
    [] groupBy = "startdate" -> "Issues Starting by Week"
    [] groupBy = "created" -> "Issues Created by Week"
    [] groupBy = "updated" -> "Issues Updated by Week"
    [] groupBy = "resolved" -> "Issues Resolved by Week"
    [] groupBy = "status" -> "Issues by Status"
    [] groupBy = "assignee" -> "Issues by Assignee"
    [] groupBy = "priority" -> "Issues by Priority"

RECURSIVE sum(_)
\* buckets.reduce((sum, count) => sum + count, 0)
sum(buckets) == IF buckets = <<>> THEN 0 ELSE buckets[1] + sum(Tail(buckets))

\* average.toFixed(1) for the quotient dividend / divisor, in tenths: the
\* nearest tenth, the larger one of two equally near
toFixed1(dividend, divisor) == ((20 * dividend) + divisor) \div (2 * divisor)

\* prepareChartData(): null without issues; else the labels, the dataset of
\* the counts and, for a grouping by week, the dataset of their average (the
\* quotient is exact in double precision: it is kept as dividend and divisor)
prepareChartData(issues, chartGroupBy, now) ==
  IF Len(issues) = 0 THEN JsNull
  ELSE IF chartGroupBy \in DateGroupings THEN
    LET grouped == weekBuckets(issues, chartGroupBy, now)
        average == [dividend |-> sum(grouped.buckets),
                    divisor |-> Len(grouped.buckets)]
    IN  [labels |-> grouped.labels,
         datasets |->
           << [label |-> <<"Issues">>, data |-> grouped.buckets],
              [label |-> <<"Average", toFixed1(average.dividend, average.divisor)>>,
               data |-> [j \in 1..Len(grouped.buckets) |-> average]] >>,
         title |-> chartTitle(chartGroupBy),
         yAxisLabel |-> "Number of Issues"]
  ELSE IF chartGroupBy \in {"status", "assignee", "priority"} THEN
    LET grouped == keyBuckets(issues, chartGroupBy)
    IN  [labels |-> grouped.labels,
         datasets |-> << [label |-> <<"Issues">>, data |-> grouped.buckets] >>,
         title |-> chartTitle(chartGroupBy),
         yAxisLabel |-> "Number of Issues"]
  ELSE JsNull

\* ------------------------------------------------------------------------
\* The search widget and the dashboard that holds it
\* ------------------------------------------------------------------------

\* the most searches the model lets wait for their answer at one time
MaxPending == 2

\* how POST /api/ai/query answers the search widget
WidgetAiReplies ==
  { Reply("rejected", <<>>),
    Reply("json object",
          [response |-> "You have 1 task in progress.", task_count |-> 1,
           suggested_actions |-> <<"View task details">>,
           chart_recommendation |-> "timeline"]) }

\* how GET /api/tasks/analytics/weekly-resolved answers the search widget
WidgetAnalyticsReplies ==
  { Reply("rejected", <<>>),
    Reply("json object",
          [average_per_week |-> 1, total_resolved |-> 4, weeks_analyzed |-> 4,
           weekly_breakdown |-> << <<"Week 1", 1>>, <<"Week 2", 0>>,
                                   <<"Week 3", 2>>, <<"Week 4", 1>> >>]) }

\* a JavaScript string in a condition: the empty string, null and undefined
\* count as false
truthy(s) == s \notin { "", JsNull, JsUndefined }

\* the value 'await conversationalHelper.getResponse(searchQuery)' yields
\* when the request for /api/ai/query settles with reply and the request for
\* the weekly analytics, if one is sent, with analytics
awaitGetResponse(tasks, searchQuery, reply, analytics) ==
  LET value == getResponse(tasks, searchQuery, reply).value
  IN  IF IsPromise(value)
      THEN handleWeeklyResolvedQuery(searchQuery, analytics).value
      ELSE value

\* prepareChartData of the search widget and of the dashboard: the number of
\* tasks of each status
statusData(results) ==
  countEntries([i \in 1..Len(results) |->
                 IF results[i].status = "" THEN "Unknown" ELSE results[i].status])

\* the four states of the search widget that handleSearch and clearSearch
\* empty
cleared(widget) ==
  [widget EXCEPT !.searchResults = <<>>, !.aiResponse = "",
                 !.chartRecommendation = JsNull, !.suggestedActions = <<>>]

\* the states of the search widget after handleSearch has set them from the
\* response; searchHistory is the array of the render the search started in,
\* which searchHistory.includes(searchQuery) reads, and prev is the array
\* of the state, of which prev.slice(0, 4) keeps the first four
answered(widget, tasks, searchQuery, searchHistory, response) ==
  LET prev == widget.searchHistory
      includesQuery == \E i \in 1..Len(searchHistory) : searchHistory[i] = searchQuery
      slice == SubSeq(prev, 1, IF Len(prev) < 4 THEN Len(prev) ELSE 4)
  IN
  [widget EXCEPT
     !.aiResponse = response.text,
     !.chartRecommendation = response.chartRecommendation,
     !.suggestedActions = IF response.suggestedActions = JsUndefined
                          THEN <<>> ELSE response.suggestedActions,
     !.searchResults = searchTasks(tasks, searchQuery),
     !.searchHistory = IF includesQuery THEN prev ELSE <<searchQuery>> \o slice]

\* handleChartRecommendation and handleSearch of the dashboard, as
\* handleSearch of the widget calls them
notified(dashboard, tasks, searchQuery, response) ==
  LET results == searchTasks(tasks, searchQuery)
      charted ==
        IF truthy(response.chartRecommendation)
        THEN [dashboard EXCEPT
                !.chartData = { IF "chartData" \in DOMAIN response
                                THEN response.chartData
                                ELSE statusData(results) },
                !.chartType = response.chartRecommendation]
        ELSE dashboard
  IN  [charted EXCEPT !.searchResults = { [query |-> searchQuery, results |-> results] }]

\* the props the dashboard gives the task list widget
TaskListWidget(dashboard, tasks) ==
  IF dashboard.searchResults # {}
  THEN LET found == CHOOSE r \in dashboard.searchResults : TRUE
       IN  [tasks |-> found.results, title |-> <<"Search Results for", found.query>>,
            maxTasks |-> 10]
  ELSE [tasks |-> tasks, title |-> <<"Recent Tasks">>, maxTasks |-> 5]

\* the chart the dashboard shows: {} when it shows none, else the props it
\* gives the chart widget
ChartWidget(dashboard, tasks) ==
  IF dashboard.chartData # {} \/ truthy(dashboard.chartType)
  THEN { [data |-> IF dashboard.chartData # {}
                   THEN CHOOSE d \in dashboard.chartData : TRUE
                   ELSE statusData(TaskListWidget(dashboard, tasks).tasks),
          chartType |-> IF truthy(dashboard.chartType) THEN dashboard.chartType
                        ELSE "pie"] }
  ELSE {}

\* ------------------------------------------------------------------------
\* The issues page: natural-language queries and the chat history
\* ------------------------------------------------------------------------

\* the most messages the model lets the chat history hold
MaxMessages == 4

\* how axios.post settles: it rejects (network error, or a status outside
\* 2xx), or the response carries the data, the JSON the backend answers a
\* conversion or an execution with: the issues it lists, the JQL it ran and
\* the number of issues the JQL matches
JqlReplies ==
  { Reply("rejected", <<>>) } \cup
  { Reply("ok", [issues |-> list, jql_query |-> "project = UT",
                 total_count |-> total]) :
      list \in { l \in IssueLists : Len(l) <= 1 }, total \in { 0, 1, 60 } }

\* the request handleNaturalLanguageQuery sends
convertRequest(query) ==
  [path |-> "/api/jql/convert",
   body |-> [natural_language |-> query, context |-> "Jira Issues List",
             max_results |-> 50, start_at |-> 0]]

\* the request handleDirectJQL sends
executeRequest(jqlQuery) ==
  [path |-> "/api/jql/execute",
   body |-> [jql |-> jqlQuery, max_results |-> 50, start_at |-> 0]]

\* the messages of the chat history (id and timestamp, which nothing reads
\* but the rendering, are left out)
userMessage(query) == [type |-> "user", content |-> query]

assistantMessage(data) ==
  [type |-> "assistant",
   content |-> IF data.total_count > Len(data.issues)
               THEN <<"Found", data.total_count, "issues (showing first",
                      Len(data.issues), ")">>
               ELSE <<"Found", Len(data.issues), "issues">>,
   jql |-> data.jql_query]

errorMessage ==
  [type |-> "error",
   content |-> "Sorry, I couldn't process that query. Please try rephrasing it."]

\* ------------------------------------------------------------------------
\* The issues page with pagination
\* ------------------------------------------------------------------------

\* useState(50)
maxResults == 50

\* how many issues the JQL of the page can match
PagedTotals == { 30, 120 }

\* the issues the backend lists for a JQL that matches total issues, from
\* the offset start_at on and max_results at most
pagedIssues(total, start_at) ==
  LET rest == total - start_at
      count == IF rest < 0 THEN 0 ELSE IF rest < maxResults THEN rest ELSE maxResults
  IN  [i \in 1..count |-> [key |-> "UT-" \o ToString(start_at + i)]]

\* how the backend answers a request of the paginated page
PagedReplies(request) ==
  { Reply("rejected", <<>>) } \cup
  { Reply("ok", [issues |-> pagedIssues(total, request.body.start_at),
                 jql_query |-> "project = UT",
                 explanation |-> "All issues of the project.",
                 suggestions |-> <<"open bugs">>,
                 total_count |-> total]) : total \in PagedTotals }

pagedExecuteRequest(jqlQuery, startAt) ==
  [path |-> "/api/jql/execute",
   body |-> [jql |-> jqlQuery, max_results |-> maxResults, start_at |-> startAt]]

\* the answers to the requests of every page, whose offsets are the
\* multiples of maxResults within the longest list
AllPagedReplies ==
  UNION { PagedReplies(pagedExecuteRequest("project = UT", start_at)) :
            start_at \in UNION { { o \in 0..total : o % maxResults = 0 } :
                                   total \in PagedTotals } }

pagedAssistantMessage(data) ==
  [type |-> "assistant",
   content |-> <<"Found", data.total_count, "issues.", data.explanation>>,
   jql |-> data.jql_query]

\* ------------------------------------------------------------------------
\* The chart widget: the weekly trend chart
\* ------------------------------------------------------------------------

\* the most tasks resolved in one week of the analytics the chart is given
MaxResolved == 3

\* A JavaScript number is a fraction num / den of integers (den > 0), NaN,
\* or an infinity; the rounding of a finite quotient to a double is not
\* modelled.
Number(num, den) == [kind |-> "finite", num |-> num, den |-> den]

NaN == [kind |-> "NaN"]

Infinity(sign) == [kind |-> "Infinity", sign |-> sign]

\* x / y of two finite numbers that are not negative
quotient(x, y) ==
  IF y.num = 0
  THEN IF x.num = 0 THEN NaN ELSE Infinity(1)
  ELSE Number(x.num * y.den, x.den * y.num)

\* base - x * 140
above(base, x) ==
  IF x.kind = "NaN" THEN NaN
  ELSE IF x.kind = "Infinity" THEN Infinity(0 - x.sign)
  ELSE Number((base * x.den) - (140 * x.num), x.den)

\* Math.max of a list of finite numbers and one more
RECURSIVE MathMax(_, _)

MathMax(values, other) ==
  IF values = <<>> THEN other
  ELSE LET rest == MathMax(Tail(values), other)
       IN  IF rest.num * values[1].den <= values[1].num * rest.den
           THEN values[1] ELSE rest

\* the AnalyticsResult of four weeks with the given counts
weeklyAnalytics(counts) ==
  [average_per_week |-> Number(counts[1] + counts[2] + counts[3] + counts[4], 4),
   total_resolved |-> counts[1] + counts[2] + counts[3] + counts[4],
   weeks_analyzed |-> 4,
   weekly_breakdown |-> [i \in 1..4 |-> <<"Week " \o ToString(i), counts[i]>>]]

\* renderWeeklyTrendChart(data): the coordinates it computes
renderWeeklyTrendChart(data) ==
  LET weekEntries == data.weekly_breakdown
      counts == [i \in 1..Len(weekEntries) |-> Number(weekEntries[i][2], 1)]
      averageValue == data.average_per_week
      maxValue == MathMax(counts, averageValue)
      ceil == Number(((maxValue.num + maxValue.den) - 1) \div maxValue.den, 1)
      y(value) == above(175, quotient(value, maxValue))
      ticks == << Number(0, 1), Number(1, 1), Number(2, 1), Number(3, 1),
                  ceil >>
      pointX(index, count) ==
        Number((40 * count) + (index * (300 - 80)), count)
  IN  [data |-> data,
       yAxisLabels |-> [k \in 1..Len(ticks) |-> y(ticks[k])],
       averageLine |-> IF averageValue.num > 0
                       THEN << y(averageValue),
                               above(170, quotient(averageValue, maxValue)) >>
                       ELSE <<>>,
       polyline |-> IF Len(weekEntries) > 1
                    THEN [i \in 1..Len(weekEntries) |->
                            << pointX(i - 1, Len(weekEntries) - 1), y(counts[i]) >>]
                    ELSE <<>>,
       dataPoints |-> [i \in 1..Len(weekEntries) |->
                         << pointX(i - 1, IF Len(weekEntries) - 1 > 1
                                          THEN Len(weekEntries) - 1 ELSE 1),
                            y(counts[i]) >>],
       xAxisLabels |-> [i \in 1..Len(weekEntries) |->
                          << pointX(i - 1, IF Len(weekEntries) - 1 > 1
                                           THEN Len(weekEntries) - 1 ELSE 1),
                             Number(195, 1) >>]]

\* ------------------------------------------------------------------------
\* State: the App, its dashboard's ConversationalHelper and the call the
\* helper is answering, and the issues page
\* ------------------------------------------------------------------------

VARIABLES
  loading,         \* App: the task list is being fetched
  error,           \* App: the error message shown, null when there is none
  tasksReply,      \* App: how the request for /api/tasks settled
  tasks,           \* App's tasks, the helper's this.tasks
  pc,              \* "idle", "awaitAI", "awaitAnalytics" or "done"
  op,              \* the method called: "getResponse", "getLocalResponse" or
                   \* "searchTasks"; "TaskSummaryWidget" when the widget renders
  query,           \* its argument
  requests,        \* the requests the call has sent so far
  aiReply,         \* how the fetch of /api/ai/query settled
  analyticsReply,  \* how the fetch of the weekly analytics settled
  outcome,         \* "pending", "resolved" or "rejected" (a promise's state;
                   \* for a synchronous call: it returned or threw)
  result,          \* the value the call resolved to
  issues,          \* IssuesPage: the issues of the last query
  activeTab,       \* IssuesPage: "table" or "chart"
  chartGroupBy,    \* IssuesPage: the grouping selected for the chart
  now,             \* IssuesPage: the latest reading of the clock
  chartData,       \* IssuesPage: the data of the chart as it is drawn
  widget,          \* SearchWidget: query, searchResults, searchHistory,
                   \* aiResponse, chartRecommendation, suggestedActions
  dashboard,       \* Dashboard: searchResults, chartData, chartType
  pending,         \* SearchWidget: the calls of handleSearch that wait for
                   \* getResponse, in the order they were made
  page,            \* IssuesPage: loading, error, chatQuery, jqlQuery,
                   \* chatHistory, totalCount; mounted: its effect has run
  pageRequest,     \* IssuesPage: the request that is under way, if any
  paged,           \* IssuesPage with pagination: its states; mounted: its
                   \* effect has run
  pagedRequest,    \* IssuesPage with pagination: the request under way
  trendChart       \* ChartWidget: the weekly trend chart as it is drawn, if any

appVars == <<loading, error, tasksReply>>

helperVars == <<pc, op, query, requests, aiReply, analyticsReply, outcome, result>>

pageVars == <<issues, activeTab, chartGroupBy, now, chartData>>

widgetVars == <<widget, dashboard, pending>>

chatVars == <<page, pageRequest>>

pagedVars == <<paged, pagedRequest>>

vars ==
  <<appVars, tasks, helperVars, pageVars, widgetVars, chatVars, pagedVars, trendChart>>

NoResult == <<>>

\* the chart tab is not shown, or it shows that there is no data
NotDrawn == "not drawn"

\* no call of the helper is under way
HelperIdle ==
  /\ pc = "idle"
  /\ op = "none"
  /\ query = ""
  /\ requests = <<>>
  /\ aiReply = NoReply
  /\ analyticsReply = NoReply
  /\ outcome = "pending"
  /\ result = NoResult

\* the issues page as it is first rendered
PageUnused ==
  /\ issues = <<>>
  /\ activeTab = "table"
  /\ chartGroupBy = "duedate"
  /\ now = Today
  /\ chartData = NotDrawn

\* the App is mounted and its effect has called fetchJiraTasks, which waits
\* for the answer to GET /api/tasks; the search widget, the dashboard and
\* the two versions of the issues page are as they are first rendered,
\* before their effect runs
Init ==
  /\ loading = TRUE
  /\ error = JsNull
  /\ tasksReply = NoReply
  /\ tasks = <<>>
  /\ HelperIdle
  /\ PageUnused
  /\ widget = [query |-> "", searchResults |-> <<>>, searchHistory |-> <<>>,
               aiResponse |-> "", chartRecommendation |-> JsNull,
               suggestedActions |-> <<>>]
  /\ dashboard = [searchResults |-> {}, chartData |-> {}, chartType |-> JsNull]
  /\ pending = <<>>
  /\ page = [mounted |-> FALSE, loading |-> FALSE, error |-> "", chatQuery |-> "",
             jqlQuery |-> "", chatHistory |-> <<>>, totalCount |-> 0]
  /\ pageRequest = {}
  /\ paged = [mounted |-> FALSE, issues |-> <<>>, loading |-> FALSE, error |-> JsNull,
              chatHistory |-> <<>>, inputValue |-> "", currentJQL |-> "",
              explanation |-> "", suggestions |-> <<>>, totalCount |-> 0,
              startAt |-> 0]
  /\ pagedRequest = {}
  /\ trendChart = {}

\* fetchJiraTasks resumes after its await: the data of the response becomes
\* the task list, or the catch clause sets the error; finally loading ends
TasksFetchSettles(reply) ==
  /\ loading = TRUE
  /\ tasksReply' = reply
  /\ IF reply.outcome = "ok"
     THEN /\ tasks' = reply.value
          /\ error' = JsNull
     ELSE /\ error' = "Failed to fetch tasks. Please try again later."
          /\ UNCHANGED tasks
  /\ loading' = FALSE
  /\ UNCHANGED <<helperVars, pageVars, widgetVars, chatVars, pagedVars, trendChart>>

\* a function body completes: a thrown exception rejects, a returned promise
\* is adopted (the call goes on waiting for it), another value resolves
Complete(completion) ==
  IF completion.type = "throw" THEN
    /\ pc' = "done"
    /\ outcome' = "rejected"
    /\ result' = NoResult
    /\ UNCHANGED requests
  ELSE IF IsPromise(completion.value) THEN
    /\ pc' = "awaitAnalytics"
    /\ requests' = Append(requests, completion.value.apiUrl)
    /\ UNCHANGED <<outcome, result>>
  ELSE
    /\ pc' = "done"
    /\ outcome' = "resolved"
    /\ result' = completion.value
    /\ UNCHANGED requests

\* getResponse(q) up to its await: the request is sent
CallGetResponse(q) ==
  /\ ~loading
  /\ pc = "idle"
  /\ pc' = "awaitAI"
  /\ op' = "getResponse"
  /\ query' = q
  /\ requests' = <<aiRequest(q)>>
  /\ UNCHANGED <<tasks, aiReply, analyticsReply, outcome, result>>
  /\ UNCHANGED <<appVars, pageVars, widgetVars, chatVars, pagedVars, trendChart>>

\* the fetch of /api/ai/query settles and getResponse resumes after its await
AiFetchSettles(reply) ==
  /\ pc = "awaitAI"
  /\ aiReply' = reply
  /\ Complete(getResponse(tasks, query, reply))
  /\ UNCHANGED <<tasks, op, query, analyticsReply>>
  /\ UNCHANGED <<appVars, pageVars, widgetVars, chatVars, pagedVars, trendChart>>

\* a getLocalResponse whose creation branch would add the task to this.tasks
CallGetLocalResponse_CreateAddsTask(q) ==
  /\ ~loading
  /\ pc = "idle"
  /\ op' = "getLocalResponse"
  /\ query' = q
  /\ Complete(Return(getLocalResponse(tasks, q)))
  /\ tasks' = IF includesAny(toLowerCase(q), {"create", "add", "new task"})
              THEN Append(tasks, [id |-> "J-5", title |-> extractTaskTitle(q, 1),
                                  status |-> "To Do", assignee |-> {},
                                  description |-> {}])
              ELSE tasks
  /\ UNCHANGED <<aiReply, analyticsReply>>
  /\ UNCHANGED <<appVars, pageVars, widgetVars, chatVars, pagedVars, trendChart>>

\* getLocalResponse(q) called directly
CallGetLocalResponse(q) ==
  /\ ~loading
  /\ pc = "idle"
  /\ op' = "getLocalResponse"
  /\ query' = q
  /\ Complete(Return(getLocalResponse(tasks, q)))
  /\ UNCHANGED <<tasks, aiReply, analyticsReply>>
  /\ UNCHANGED <<appVars, pageVars, widgetVars, chatVars, pagedVars, trendChart>>

\* searchTasks(q) called directly: it returns the matching tasks
CallSearchTasks(q) ==
  /\ ~loading
  /\ pc = "idle"
  /\ op' = "searchTasks"
  /\ query' = q
  /\ pc' = "done"
  /\ outcome' = "resolved"
  /\ result' = searchTasks(tasks, q)
  /\ UNCHANGED <<tasks, requests, aiReply, analyticsReply>>
  /\ UNCHANGED <<appVars, pageVars, widgetVars, chatVars, pagedVars, trendChart>>

\* the dashboard renders the Task Summary widget with the task list
RenderTaskSummaryWidget ==
  /\ ~loading
  /\ pc = "idle"
  /\ pc' = "done"
  /\ op' = "TaskSummaryWidget"
  /\ outcome' = "resolved"
  /\ result' = TaskSummaryWidget(tasks)
  /\ UNCHANGED <<tasks, query, requests, aiReply, analyticsReply>>
  /\ UNCHANGED <<appVars, pageVars, widgetVars, chatVars, pagedVars, trendChart>>

\* the fetch of the weekly analytics settles and handleWeeklyResolvedQuery
\* resumes after its await
AnalyticsFetchSettles(reply) ==
  /\ pc = "awaitAnalytics"
  /\ analyticsReply' = reply
  /\ Complete(handleWeeklyResolvedQuery(query, reply))
  /\ UNCHANGED <<tasks, op, query, aiReply>>
  /\ UNCHANGED <<appVars, pageVars, widgetVars, chatVars, pagedVars, trendChart>>

\* the caller's continuation runs with the settled result; the helper is
\* ready for the next call
Finish ==
  /\ pc = "done"
  /\ pc' = "idle"
  /\ op' = "none"
  /\ query' = ""
  /\ requests' = <<>>
  /\ aiReply' = NoReply
  /\ analyticsReply' = NoReply
  /\ outcome' = "pending"
  /\ result' = NoResult
  /\ UNCHANGED <<tasks, appVars, pageVars, widgetVars, chatVars, pagedVars, trendChart>>

\* the page is rendered again with the new state: the chart tab, if it is
\* the active one and there are issues, calls prepareChartData, which reads
\* the clock
drawChart(newIssues, newTab, newGroupBy, instant) ==
  IF newTab = "chart" /\ Len(newIssues) > 0
  THEN /\ instant >= now
       /\ now' = instant
       /\ chartData' = prepareChartData(newIssues, newGroupBy, instant)
  ELSE /\ chartData' = NotDrawn
       /\ UNCHANGED now

\* the answer to a query arrives: setIssues(data.issues)
IssuesLoaded(list, instant) ==
  /\ issues' = list
  /\ drawChart(list, activeTab, chartGroupBy, instant)
  /\ UNCHANGED <<activeTab, chartGroupBy>>
  /\ UNCHANGED <<appVars, tasks, helperVars, widgetVars, chatVars, pagedVars, trendChart>>

\* a click on 'Issues Table' or 'Data Trends'
SetActiveTab(tab, instant) ==
  /\ activeTab' = tab
  /\ drawChart(issues, tab, chartGroupBy, instant)
  /\ UNCHANGED <<issues, chartGroupBy>>
  /\ UNCHANGED <<appVars, tasks, helperVars, widgetVars, chatVars, pagedVars, trendChart>>

\* the 'Group by' select of the chart tab changes
SetChartGroupBy(groupBy, instant) ==
  /\ activeTab = "chart"
  /\ chartGroupBy' = groupBy
  /\ drawChart(issues, activeTab, groupBy, instant)
  /\ UNCHANGED <<issues, activeTab>>
  /\ UNCHANGED <<appVars, tasks, helperVars, widgetVars, chatVars, pagedVars, trendChart>>

IssuesPageNext ==
  \/ \E list \in IssueLists, instant \in Clock : IssuesLoaded(list, instant)
  \/ \E tab \in {"table", "chart"}, instant \in Clock : SetActiveTab(tab, instant)
  \/ \E groupBy \in ChartGroupings, instant \in Clock :
       SetChartGroupBy(groupBy, instant)

IssuesPageSpec == Init /\ [][IssuesPageNext]_vars

\* handleSearch(searchQuery) of the search widget up to its await: a blank
\* query empties the widget; any other sends the request of getResponse and
\* waits, holding the searchHistory of the render it was called in
handleSearch(searchQuery) ==
  IF trim(searchQuery) = ""
  THEN /\ widget' = cleared([widget EXCEPT !.query = searchQuery])
       /\ UNCHANGED pending
  ELSE /\ Len(pending) < MaxPending
       /\ widget' = [widget EXCEPT !.query = searchQuery]
       /\ pending' = Append(pending, [searchQuery |-> searchQuery,
                                      searchHistory |-> widget.searchHistory])

\* the input of the search box changes: the change event hands over a value
\* other than the one the box held
handleInputChange(value) ==
  /\ ~loading
  /\ value # widget.query
  /\ handleSearch(value)
  /\ UNCHANGED <<dashboard, appVars, tasks, helperVars, pageVars, chatVars, pagedVars, trendChart>>

\* a click on a quick-question button or on an entry of the search history
handleQuickSearch(quickQuery) ==
  /\ ~loading
  /\ handleSearch(quickQuery)
  /\ UNCHANGED <<dashboard, appVars, tasks, helperVars, pageVars, chatVars, pagedVars, trendChart>>

\* a click on the clear button, which is shown while the query is not empty
clearSearch ==
  /\ ~loading
  /\ widget.query # ""
  /\ widget' = cleared([widget EXCEPT !.query = ""])
  /\ UNCHANGED <<pending, dashboard>>
  /\ UNCHANGED <<appVars, tasks, helperVars, pageVars, chatVars, pagedVars, trendChart>>

\* the getResponse of the k-th waiting search settles and handleSearch
\* resumes after its await
SearchSettles(k, reply, analytics) ==
  /\ k \in 1..Len(pending)
  /\ LET search == pending[k]
         response == awaitGetResponse(tasks, search.searchQuery, reply, analytics)
     IN  /\ widget' = answered(widget, tasks, search.searchQuery,
                               search.searchHistory, response)
         /\ dashboard' = notified(dashboard, tasks, search.searchQuery, response)
  /\ pending' = [i \in 1..(Len(pending) - 1) |->
                   IF i < k THEN pending[i] ELSE pending[i + 1]]
  /\ UNCHANGED <<appVars, tasks, helperVars, pageVars, chatVars, pagedVars, trendChart>>

SearchWidgetNext ==
  \/ \E ts \in { <<>>,
                  << [id |-> "J-1", title |-> "Fix login bug",
                      status |-> "In Progress",
                      assignee |-> {"user1@example.com"}, description |-> {}],
                     [id |-> "J-3", title |-> "Ship release", status |-> "Done",
                      assignee |-> {}, description |-> {}] >> } :
       TasksFetchSettles(Reply("ok", ts))
  \/ \E value \in { "", " ", "done" } : handleInputChange(value)
  \/ \E quickQuery \in { "help" } : handleQuickSearch(quickQuery)
  \/ clearSearch
  \/ \E k \in 1..MaxPending, reply \in WidgetAiReplies,
          analytics \in WidgetAnalyticsReplies :
       SearchSettles(k, reply, analytics)

SearchWidgetSpec == Init /\ [][SearchWidgetNext]_vars

\* handleNaturalLanguageQuery(question) of the issues page up to its await;
\* rendered is the state of the page with the updates of the caller
handleNaturalLanguageQuery(rendered, question) ==
  IF trim(question) = ""
  THEN /\ page' = rendered
       /\ UNCHANGED <<pageRequest, pageVars>>
  ELSE /\ Len(page.chatHistory) + 2 <= MaxMessages
       /\ page' = [rendered EXCEPT !.loading = TRUE, !.error = JsNull,
                                   !.chatHistory = Append(@, userMessage(question))]
       /\ pageRequest' = { convertRequest(question) }
       /\ chartData' = NotDrawn
       /\ UNCHANGED <<issues, activeTab, chartGroupBy, now>>

\* a handleNaturalLanguageQuery that appends no message when the request fails
ConvertSettles_SilentFailure(reply, instant) ==
  /\ \E request \in pageRequest : request.path = "/api/jql/convert"
  /\ IF reply.outcome = "ok"
     THEN /\ issues' = reply.value.issues
          /\ page' = [page EXCEPT !.jqlQuery = reply.value.jql_query,
                                  !.totalCount = reply.value.total_count,
                                  !.error = "",
                                  !.chatHistory = Append(@, assistantMessage(reply.value)),
                                  !.loading = FALSE]
     ELSE /\ page' = [page EXCEPT !.error = "Failed to process your query. Please try again.",
                                  !.loading = FALSE]
          /\ UNCHANGED issues
  /\ pageRequest' = {}
  /\ drawChart(issues', activeTab, chartGroupBy, instant)
  /\ UNCHANGED <<activeTab, chartGroupBy>>
  /\ UNCHANGED <<appVars, tasks, helperVars, widgetVars, pagedVars, trendChart>>

\* the request for /api/jql/convert settles and handleNaturalLanguageQuery
\* resumes after its await
ConvertSettles(reply, instant) ==
  /\ \E request \in pageRequest : request.path = "/api/jql/convert"
  /\ IF reply.outcome = "ok"
     THEN /\ issues' = reply.value.issues
          /\ page' = [page EXCEPT !.jqlQuery = reply.value.jql_query,
                                  !.totalCount = reply.value.total_count,
                                  !.error = "",
                                  !.chatHistory = Append(@, assistantMessage(reply.value)),
                                  !.loading = FALSE]
     ELSE /\ page' = [page EXCEPT !.error = "Failed to process your query. Please try again.",
                                  !.chatHistory = Append(@, errorMessage),
                                  !.loading = FALSE]
          /\ UNCHANGED issues
  /\ pageRequest' = {}
  /\ drawChart(issues', activeTab, chartGroupBy, instant)
  /\ UNCHANGED <<activeTab, chartGroupBy>>
  /\ UNCHANGED <<appVars, tasks, helperVars, widgetVars, pagedVars, trendChart>>

\* the effect that runs when the page is mounted
loadInitialData ==
  /\ ~page.mounted
  /\ handleNaturalLanguageQuery([page EXCEPT !.mounted = TRUE], "Show me all issues")
  /\ UNCHANGED <<appVars, tasks, helperVars, widgetVars, pagedVars, trendChart>>

\* the chat input changes; it is disabled while loading
setChatQuery(value) ==
  /\ page.mounted
  /\ ~page.loading
  /\ page' = [page EXCEPT !.chatQuery = value]
  /\ UNCHANGED <<pageRequest, pageVars>>
  /\ UNCHANGED <<appVars, tasks, helperVars, widgetVars, pagedVars, trendChart>>

\* the chat form is submitted
handleChatSubmit ==
  /\ page.mounted
  /\ ~page.loading
  /\ IF trim(page.chatQuery) # ""
     THEN handleNaturalLanguageQuery([page EXCEPT !.chatQuery = ""], page.chatQuery)
     ELSE UNCHANGED <<page, pageRequest, pageVars>>
  /\ UNCHANGED <<appVars, tasks, helperVars, widgetVars, pagedVars, trendChart>>

\* a click on 'Execute JQL', which is disabled while loading:
\* handleDirectJQL(jqlQuery) up to its await
handleDirectJQL ==
  /\ page.mounted
  /\ ~page.loading
  /\ IF trim(page.jqlQuery) = ""
     THEN UNCHANGED <<page, pageRequest, pageVars>>
     ELSE /\ page' = [page EXCEPT !.loading = TRUE, !.error = JsNull]
          /\ pageRequest' = { executeRequest(page.jqlQuery) }
          /\ chartData' = NotDrawn
          /\ UNCHANGED <<issues, activeTab, chartGroupBy, now>>
  /\ UNCHANGED <<appVars, tasks, helperVars, widgetVars, pagedVars, trendChart>>

\* the request for /api/jql/execute settles and handleDirectJQL resumes
ExecuteSettles(reply, instant) ==
  /\ \E request \in pageRequest : request.path = "/api/jql/execute"
  /\ IF reply.outcome = "ok"
     THEN /\ issues' = reply.value.issues
          /\ page' = [page EXCEPT !.jqlQuery = reply.value.jql_query,
                                  !.totalCount = reply.value.total_count,
                                  !.error = "",
                                  !.loading = FALSE]
     ELSE /\ page' = [page EXCEPT
                        !.error = "Failed to execute JQL query. Please check your syntax.",
                        !.loading = FALSE]
          /\ UNCHANGED issues
  /\ pageRequest' = {}
  /\ drawChart(issues', activeTab, chartGroupBy, instant)
  /\ UNCHANGED <<activeTab, chartGroupBy>>
  /\ UNCHANGED <<appVars, tasks, helperVars, widgetVars, pagedVars, trendChart>>

ChatNext ==
  \/ loadInitialData
  \/ \E value \in { "", " ", "bugs" } : setChatQuery(value)
  \/ handleChatSubmit
  \/ \E reply \in JqlReplies, instant \in Clock : ConvertSettles(reply, instant)
  \/ handleDirectJQL
  \/ \E reply \in JqlReplies, instant \in Clock : ExecuteSettles(reply, instant)

ChatSpec == Init /\ [][ChatNext]_vars

\* handleNaturalLanguageQuery(question) of the paginated page up to its await;
\* rendered is the state of the page with the updates of the caller, and the
\* request carries the startAt of the render the handler belongs to
pagedNaturalLanguageQuery(rendered, question) ==
  IF trim(question) = ""
  THEN /\ paged' = rendered
       /\ UNCHANGED pagedRequest
  ELSE /\ Len(paged.chatHistory) + 2 <= MaxMessages
       /\ paged' = [rendered EXCEPT !.loading = TRUE, !.error = JsNull,
                                    !.chatHistory = Append(@, userMessage(question))]
       /\ pagedRequest' =
            { [path |-> "/api/jql/convert",
               body |-> [natural_language |-> question,
                         context |-> "Jira Issues List",
                         max_results |-> maxResults,
                         start_at |-> paged.startAt]] }

\* handleDirectJQL(jqlQuery) of the paginated page up to its await
pagedDirectJQL(rendered, jqlQuery) ==
  IF trim(jqlQuery) = ""
  THEN /\ paged' = rendered
       /\ UNCHANGED pagedRequest
  ELSE /\ paged' = [rendered EXCEPT !.loading = TRUE, !.error = JsNull]
       /\ pagedRequest' = { pagedExecuteRequest(jqlQuery, paged.startAt) }

\* the effect that runs when the paginated page is mounted
pagedLoadInitialData ==
  /\ ~paged.mounted
  /\ pagedNaturalLanguageQuery([paged EXCEPT !.mounted = TRUE], "Show me all issues")
  /\ UNCHANGED <<appVars, tasks, helperVars, pageVars, widgetVars, chatVars, trendChart>>

\* the chat input changes; it is disabled while loading
setInputValue(value) ==
  /\ paged.mounted
  /\ ~paged.loading
  /\ paged' = [paged EXCEPT !.inputValue = value]
  /\ UNCHANGED pagedRequest
  /\ UNCHANGED <<appVars, tasks, helperVars, pageVars, widgetVars, chatVars, trendChart>>

\* the chat form of the paginated page is submitted
pagedChatSubmit ==
  /\ paged.mounted
  /\ ~paged.loading
  /\ IF trim(paged.inputValue) # ""
     THEN pagedNaturalLanguageQuery([paged EXCEPT !.inputValue = ""], paged.inputValue)
     ELSE UNCHANGED <<paged, pagedRequest>>
  /\ UNCHANGED <<appVars, tasks, helperVars, pageVars, widgetVars, chatVars, trendChart>>

\* a click on a suggestion, which is disabled while loading
handleSuggestionClick(suggestion) ==
  /\ paged.mounted
  /\ ~paged.loading
  /\ \E i \in 1..Len(paged.suggestions) : paged.suggestions[i] = suggestion
  /\ pagedNaturalLanguageQuery(paged, suggestion)
  /\ UNCHANGED <<appVars, tasks, helperVars, pageVars, widgetVars, chatVars, trendChart>>

\* the request for /api/jql/convert settles
PagedConvertSettles(reply) ==
  /\ \E request \in pagedRequest :
       request.path = "/api/jql/convert" /\ reply \in PagedReplies(request)
  /\ paged' =
       IF reply.outcome = "ok"
       THEN [paged EXCEPT !.issues = reply.value.issues,
                          !.currentJQL = reply.value.jql_query,
                          !.explanation = reply.value.explanation,
                          !.suggestions = reply.value.suggestions,
                          !.totalCount = reply.value.total_count,
                          !.chatHistory = Append(@, pagedAssistantMessage(reply.value)),
                          !.loading = FALSE]
       ELSE [paged EXCEPT !.error = "Failed to process your query. Please try again.",
                          !.chatHistory = Append(@, errorMessage),
                          !.loading = FALSE]
  /\ pagedRequest' = {}
  /\ UNCHANGED <<appVars, tasks, helperVars, pageVars, widgetVars, chatVars, trendChart>>

\* a click on 'Execute JQL' of the paginated page
ClickExecuteJQL ==
  /\ paged.mounted
  /\ ~paged.loading
  /\ pagedDirectJQL(paged, paged.currentJQL)
  /\ UNCHANGED <<appVars, tasks, helperVars, pageVars, widgetVars, chatVars, trendChart>>

\* the request for /api/jql/execute settles
PagedExecuteSettles(reply) ==
  /\ \E request \in pagedRequest :
       request.path = "/api/jql/execute" /\ reply \in PagedReplies(request)
  /\ paged' =
       IF reply.outcome = "ok"
       THEN [paged EXCEPT !.issues = reply.value.issues,
                          !.currentJQL = reply.value.jql_query,
                          !.explanation = reply.value.explanation,
                          !.totalCount = reply.value.total_count,
                          !.loading = FALSE]
       ELSE [paged EXCEPT !.error = "Failed to execute JQL query. Please check your syntax.",
                          !.loading = FALSE]
  /\ pagedRequest' = {}
  /\ UNCHANGED <<appVars, tasks, helperVars, pageVars, widgetVars, chatVars, trendChart>>

\* a click on 'Previous', shown when there is more than one page and
\* disabled on the first one and while loading
ClickPrevious ==
  /\ paged.totalCount > maxResults
  /\ paged.startAt # 0
  /\ ~paged.loading
  /\ LET newStartAt == IF paged.startAt - maxResults < 0 THEN 0
                       ELSE paged.startAt - maxResults
         rendered == [paged EXCEPT !.startAt = newStartAt]
     IN  IF paged.currentJQL # ""
         THEN pagedDirectJQL(rendered, paged.currentJQL)
         ELSE /\ paged' = rendered
              /\ UNCHANGED pagedRequest
  /\ UNCHANGED <<appVars, tasks, helperVars, pageVars, widgetVars, chatVars, trendChart>>

\* a click on 'Next', shown when there is more than one page and disabled
\* on the last one and while loading
ClickNext ==
  /\ paged.totalCount > maxResults
  /\ paged.startAt + maxResults < paged.totalCount
  /\ ~paged.loading
  /\ LET newStartAt == paged.startAt + maxResults
         rendered == [paged EXCEPT !.startAt = newStartAt]
     IN  IF newStartAt < paged.totalCount
         THEN IF paged.currentJQL # ""
              THEN pagedDirectJQL(rendered, paged.currentJQL)
              ELSE /\ paged' = rendered
                   /\ UNCHANGED pagedRequest
         ELSE UNCHANGED <<paged, pagedRequest>>
  /\ UNCHANGED <<appVars, tasks, helperVars, pageVars, widgetVars, chatVars, trendChart>>

PagedNext ==
  \/ pagedLoadInitialData
  \/ \E value \in { "", "bugs" } : setInputValue(value)
  \/ pagedChatSubmit
  \/ \E suggestion \in { "open bugs" } : handleSuggestionClick(suggestion)
  \/ \E reply \in AllPagedReplies : PagedConvertSettles(reply)
  \/ ClickExecuteJQL
  \/ \E reply \in AllPagedReplies : PagedExecuteSettles(reply)
  \/ ClickPrevious
  \/ ClickNext

PagedSpec == Init /\ [][PagedNext]_vars

\* the chart widget is rendered with chartType 'weekly_trend' and the data
RenderWeeklyTrendChart(data) ==
  /\ trendChart' = { renderWeeklyTrendChart(data) }
  /\ UNCHANGED <<appVars, tasks, helperVars, pageVars, widgetVars, chatVars, pagedVars>>

ChartNext ==
  \E counts \in [1..4 -> 0..MaxResolved] :
    RenderWeeklyTrendChart(weeklyAnalytics(counts))

ChartSpec == Init /\ [][ChartNext]_vars

Next ==
  \/ \E reply \in TaskListReplies : TasksFetchSettles(reply)
  \/ \E q \in Queries : CallGetResponse(q)
  \/ \E reply \in AiReplies : AiFetchSettles(reply)
  \/ \E q \in Queries : CallGetLocalResponse(q)
  \/ \E q \in Queries : CallSearchTasks(q)
  \/ RenderTaskSummaryWidget
  \/ \E reply \in AnalyticsReplies : AnalyticsFetchSettles(reply)
  \/ Finish

Spec == Init /\ [][Next]_vars

\* the dashboard of a project with a long task list, asked for its summary
LongListNext ==
  \/ \E ts \in LongSnapshots : TasksFetchSettles(Reply("ok", ts))
  \/ CallGetLocalResponse("Give me a summary")
  \/ Finish

LongListSpec == Init /\ [][LongListNext]_vars

\* the event loop runs the continuation of a settled promise; nothing obliges
\* the backend to answer a request, nor the user to ask
FairSpec == Spec /\ WF_vars(Finish)

TypeOK ==
  /\ loading \in BOOLEAN
  /\ error \in {JsNull, "Failed to fetch tasks. Please try again later."}
  /\ tasks \in TaskSnapshots
  /\ pc \in {"idle", "awaitAI", "awaitAnalytics", "done"}
  /\ op \in {"none", "getResponse", "getLocalResponse", "searchTasks",
            "TaskSummaryWidget"}
  /\ outcome \in {"pending", "resolved", "rejected"}

\* ------------------------------------------------------------------------
\* The rule order of the specification and the kinds of result
\* ------------------------------------------------------------------------

\* the fixed priority list: the intent of each rule and the keywords that
\* select it; the last rule (search, or unknown if nothing is found) has none
RuleOrder ==
  << [intent |-> "create_task", keywords |-> {"create", "add", "new task"}],
     [intent |-> "in_progress", keywords |-> {"in progress", "working on"}],
     [intent |-> "to_do", keywords |-> {"to do", "todo", "pending"}],
     [intent |-> "done", keywords |-> {"done", "completed", "finished"}],
     [intent |-> "summary", keywords |-> {"summary", "overview", "status"}],
     [intent |-> "assignee_lookup user1", keywords |-> {"user1"}],
     [intent |-> "assignee_lookup user2", keywords |-> {"user2"}],
     [intent |-> "weekly_analytics",
      keywords |-> {"average resolved", "weekly resolved", "resolved per week"}],
     [intent |-> "workload", keywords |-> {"workload", "how many", "count"}],
     [intent |-> "priority", keywords |-> {"urgent", "priority", "important"}],
     [intent |-> "help", keywords |-> {"help", "what can", "?"}],
     [intent |-> "search/unknown", keywords |-> {}] >>

\* the lower-cased query contains a keyword of rule k
RuleMatches(k, lowerQuery) == \E w \in RuleOrder[k].keywords : includes(lowerQuery, w)

\* the intent of the earliest rule a keyword of which the lower-cased query
\* contains, the search/unknown fallback if there is none
FirstMatchIntent(q) ==
  LET lowerQuery == toLowerCase(q)
  IN  IF \E k \in 1..Len(RuleOrder) : RuleMatches(k, lowerQuery)
      THEN RuleOrder[CHOOSE k \in 1..Len(RuleOrder) :
                       /\ RuleMatches(k, lowerQuery)
                       /\ \A j \in 1..(k - 1) : ~RuleMatches(j, lowerQuery)].intent
      ELSE "search/unknown"

\* the number of tasks of the snapshot with the given status
StatusCount(status) == Cardinality({ i \in 1..Len(tasks) : tasks[i].status = status })

\* the AI request failed in one of the ways getResponse recovers from
AiFailed == aiReply.outcome \in {"rejected", "not ok", "unparseable", "json null"}

\* the call is over and its result is a local one
AnsweredLocally ==
  /\ pc = "done"
  /\ outcome = "resolved"
  /\ op = "getLocalResponse" \/ AiFailed

\* the kind of a local result, read off the result itself
ResultKind(r) ==
  CASE r.suggestedActions = <<"Set assignee", "Add description", "Create task via API">>
         -> "create_task"
    [] r.suggestedActions = <<"View task details", "Update status", "Mark as done">>
         -> "in_progress"
    [] r.suggestedActions = <<"Start working", "Assign tasks", "Prioritize">>
         -> "to_do"
    [] r.suggestedActions = <<"View completed", "Archive tasks", "Generate report">>
         -> "done"
    [] r.suggestedActions = <<"Show pie chart", "View detailed breakdown", "Export data">>
         -> "summary"
    [] r.suggestedActions = <<"View user tasks", "Check workload", "Reassign tasks">>
         -> IF r.text.assignee = "user1@example.com"
            THEN "assignee_lookup user1"
            ELSE "assignee_lookup user2"
    [] r.suggestedActions = <<"View detailed breakdown", "Export analytics", "Compare assignees">>
         -> "weekly_analytics"
    [] r.suggestedActions = <<"Try again", "Check connection">>
         -> "weekly_analytics"
    [] r.suggestedActions = <<"Show bar chart", "Balance workload", "View individual assignments">>
         -> "workload"
    [] r.suggestedActions = <<"Filter by priority", "View urgent tasks", "Sort by importance">>
         -> "priority"
    [] r.suggestedActions = <<"Try sample query", "View task summary", "Create new task">>
         -> "help"
    [] r.suggestedActions = <<"View task details", "Refine search", "Filter results">>
         -> "search"
    [] r.suggestedActions = <<"Ask for help", "Try different query", "View all tasks">>
         -> "unknown"

\* the intent of the rule a local result answers
ResultIntent(r) ==
  IF ResultKind(r) \in {"search", "unknown"} THEN "search/unknown" ELSE ResultKind(r)

\* ------------------------------------------------------------------------
\* Properties
\* ------------------------------------------------------------------------

\* C1: local resolution is first-match-wins over the fixed rule order: the
\* result answers the intent of the earliest rule a keyword of which the
\* lower-cased query contains; a query containing 'create', 'add' or
\* 'new task' is resolved as create_task with taskCount 0 and no chart
\* recommendation, whatever other keywords it contains.
C1_FirstMatchWins ==
  AnsweredLocally =>
    /\ ResultIntent(result) = FirstMatchIntent(query)
    /\ RuleMatches(1, toLowerCase(query)) =>
         /\ ResultIntent(result) = "create_task"
         /\ result.taskCount = 0
         /\ result.chartRecommendation = JsNull

\* a creation query that also holds a priority keyword is answered as creation
C1_Witness ==
  /\ AnsweredLocally
  /\ op = "getLocalResponse"
  /\ query = "create task: fix urgent bug"
  /\ tasks # <<>>
  /\ ResultIntent(result) = "create_task"
  /\ result.taskCount = 0

\* C2: when the POST to /api/ai/query rejects, answers with a non-OK status
\* or has a body that cannot be parsed, getResponse resolves to exactly what
\* getLocalResponse(query) yields; the backend's fields are used only when the
\* response is OK; a call sends at most one request to /api/ai/query.
C2_FallsBackToLocal ==
  /\ Cardinality({ i \in 1..Len(requests) : requests[i].path = "/api/ai/query" }) <= 1
  /\ (pc = "done" /\ op = "getResponse") =>
       /\ outcome = "resolved"
       /\ aiReply.outcome \in {"rejected", "not ok", "unparseable"} =>
            LET local == getLocalResponse(tasks, query)
            IN  IF IsPromise(local)
                THEN result = handleWeeklyResolvedQuery(query, analyticsReply).value
                ELSE result = local
       /\ aiReply.outcome = "json object" => result = remoteResult(aiReply.value)

\* the backend answered with a non-OK status and the call resolved to a local
\* result computed from a non-empty snapshot
C2_Witness ==
  /\ pc = "done"
  /\ op = "getResponse"
  /\ aiReply.outcome = "not ok"
  /\ Len(requests) = 1
  /\ query = "What's in progress?"
  /\ result.taskCount = 1

\* C3: every getResponse call eventually yields a result, even if the backend
\* never answers, because the requests have a bounded timeout.
C3_EveryCallCompletes == (pc \in {"awaitAI", "awaitAnalytics"}) ~> (pc = "done")

\* the weekly analytics failed after the AI request had failed
WeeklyFetchFailed ==
  /\ Len(requests) > 0
  /\ requests[Len(requests)].path = "/api/tasks/analytics/weekly-resolved"
  /\ analyticsReply.outcome \in {"rejected", "not ok", "unparseable"}

C5_BlankQueryIsUnknown ==
  (AnsweredLocally /\ trim(query) = "") =>
    /\ ResultKind(result) = "unknown"
    /\ result.taskCount = 0
    /\ result.chartRecommendation = JsNull

\* a status result agrees with the snapshot: its taskCount is the number of
\* tasks with exactly that status, its text lists exactly those tasks, and it
\* is the empty-state message if and only if there is none
StatusResultAgrees(status, emptyState) ==
  /\ result.taskCount = StatusCount(status)
  /\ IF StatusCount(status) = 0
     THEN result.text.template = emptyState
     ELSE /\ result.text.template # emptyState
          /\ result.text.count = StatusCount(status)
          /\ Len(result.text.taskList) = StatusCount(status)
          /\ \A i \in 1..Len(result.text.taskList) :
               \E j \in 1..Len(tasks) :
                 /\ tasks[j].status = status
                 /\ result.text.taskList[i] = <<tasks[j].id, tasks[j].title>>

\* C6: for in_progress, to_do and done results taskCount is the number of
\* tasks whose status is exactly 'In Progress', 'To Do' or 'Done', which is the
\* number of tasks the text lists, and the empty-state message is returned if
\* and only if that number is 0; for a search result taskCount is the number
\* of tasks searchTasks returns.
C6_StatusCountIsMatchedSubset ==
  AnsweredLocally =>
    /\ ResultKind(result) = "in_progress" =>
         StatusResultAgrees("In Progress", "no tasks currently in progress")
    /\ ResultKind(result) = "to_do" =>
         StatusResultAgrees("To Do", "no pending tasks")
    /\ ResultKind(result) = "done" =>
         StatusResultAgrees("Done", "no tasks completed yet")
    /\ ResultKind(result) = "search" =>
         result.taskCount = Len(searchTasks(tasks, query))

\* an in-progress result over a snapshot of which only one task is in progress
C6_Witness ==
  /\ AnsweredLocally
  /\ ResultKind(result) = "in_progress"
  /\ Len(tasks) = 3
  /\ result.taskCount = 1
  /\ Len(result.text.taskList) = 1

\* C7: for an assignee_lookup result taskCount is the number of tasks whose
\* assignee is exactly the looked-up identity, the number the text reports.
C7_AssigneeCountIsMatchedSubset ==
  (AnsweredLocally /\ ResultKind(result) \in {"assignee_lookup user1",
                                               "assignee_lookup user2"}) =>
    LET assigned == { i \in 1..Len(tasks) : tasks[i].assignee = {result.text.assignee} }
    IN  /\ result.taskCount = Cardinality(assigned)
        /\ IF result.text.template = "no tasks assigned"
           THEN result.taskCount = 0
           ELSE result.taskCount = result.text.count

\* C8: for a priority query taskCount is the number of tasks with status
\* 'In Progress', the subset the text reports as urgent.
C8_PriorityCountIsInProgress ==
  (AnsweredLocally /\ ResultKind(result) = "priority") =>
    /\ result.taskCount = StatusCount("In Progress")
    /\ IF result.text.template = "nothing is immediately urgent"
       THEN result.taskCount = 0
       ELSE result.taskCount = result.text.count

\* the chart recommendation the specification fixes for a kind of result
FixedChart(kind) ==
  CASE kind = "in_progress" -> "timeline"
    [] kind = "to_do" -> "table"
    [] kind = "done" -> "pie"
    [] kind = "summary" -> "pie"
    [] kind \in {"assignee_lookup user1", "assignee_lookup user2"} -> "bar"
    [] kind = "workload" -> "bar"
    [] kind = "search" -> "table"
    [] kind \in {"create_task", "help", "unknown"} -> JsNull

\* C9: a local result carries the fixed chart recommendation of its intent
\* (in_progress timeline, to_do table, done pie, summary pie, assignee_lookup
\* bar, workload bar, search table, create_task, help and unknown none), for
\* every query and every snapshot, the empty one included.
C9_FixedChartPerIntent ==
  (AnsweredLocally /\ ResultKind(result) \notin {"weekly_analytics", "priority"}) =>
    result.chartRecommendation = FixedChart(ResultKind(result))

\* the scenario of the specification: "what's in progress?" on no task at all
C9_Witness ==
  /\ AnsweredLocally
  /\ tasks = <<>>
  /\ query = "What's in progress?"
  /\ result.taskCount = 0
  /\ result.chartRecommendation = "timeline"

\* what answering q locally on the snapshot ts resolves to when the weekly
\* analytics request (if one is made) settles with reply
LocalAnswer(ts, q, reply) ==
  LET local == getLocalResponse(ts, q)
  IN  IF IsPromise(local) THEN handleWeeklyResolvedQuery(q, reply).value ELSE local

\* C10: for every intent, weekly_analytics and priority included, the chart
\* recommendation of a local result depends on the intent alone: answering
\* the query on any other snapshot and with any other outcome of the network
\* call gives, for the same intent, the same chart recommendation.
C10_ChartDependsOnIntentAlone ==
  AnsweredLocally =>
    \A ts \in TaskSnapshots, reply \in AnalyticsReplies :
      LET other == LocalAnswer(ts, query, reply)
      IN  ResultKind(other) = ResultKind(result) =>
            other.chartRecommendation = result.chartRecommendation

\* the lower-cased query holds a weekly-analytics phrase and the token of the
\* assignee, and no keyword of a rule that precedes the assignee rules
WeeklyQueryFor(token) ==
  LET lowerQuery == toLowerCase(query)
  IN  /\ RuleMatches(8, lowerQuery)
      /\ includes(lowerQuery, token)
      /\ \A k \in 1..5 : ~RuleMatches(k, lowerQuery)

\* C11: in local resolution a query that holds a weekly-analytics phrase
\* together with a known assignee token ('weekly resolved for user1') is
\* resolved as weekly_analytics and its analytics request carries that
\* assignee, not as a plain assignee lookup.
C11_WeeklyWithAssigneeIsWeekly ==
  \A n \in {"1", "2"} :
    (AnsweredLocally /\ WeeklyQueryFor("user" \o n)) =>
      /\ ResultKind(result) = "weekly_analytics"
      /\ requests # <<>>
      /\ requests[Len(requests)] =
           [path |-> "/api/tasks/analytics/weekly-resolved",
            assignee |-> {"user" \o n \o "@example.com"}]

\* the title a creation result confirms, '' when it is the prompt
ExtractedTitle(r) == IF "taskTitle" \in DOMAIN r.text THEN r.text.taskTitle ELSE ""

\* the positions at which the prefix occurs in the lower-cased string
PrefixStarts(s, prefix) ==
  LET lower == toLowerCase(s)
  IN  { i \in 1..(Len(s) - Len(prefix) + 1) :
          SubSeq(lower, i, i + Len(prefix) - 1) = prefix }

\* the text that follows the first occurrence of the prefix
TextAfter(s, prefix) ==
  LET i == CHOOSE k \in PrefixStarts(s, prefix) :
             \A m \in PrefixStarts(s, prefix) : k <= m
  IN  SubSeq(s, i + Len(prefix), Len(s))

\* C12: for every query that holds 'create task:' followed by a text T, the
\* title the creation response confirms is T without its surrounding
\* whitespace, whatever characters T contains.
C12_TitleIsTrimmedText ==
  (/\ AnsweredLocally
   /\ PrefixStarts(query, "create task:") # {}
   /\ trim(TextAfter(query, "create task:")) # "") =>
    /\ ResultKind(result) = "create_task"
    /\ ExtractedTitle(result) = trim(TextAfter(query, "create task:"))

\* the prefixes of the creation examples
TitlePrefixes == { "create task:", "add task:", "new task:" }

\* C13: when nothing but whitespace follows 'create task:', 'add task:' or
\* 'new task:' (the quick action sends 'create task: '), no title is extracted
\* and the response is the prompt asking which task to create.
C13_BlankTitleGivesPrompt ==
  \A prefix \in TitlePrefixes :
    (/\ AnsweredLocally
     /\ PrefixStarts(query, prefix) # {}
     /\ trim(TextAfter(query, prefix)) = "") =>
      /\ ResultKind(result) = "create_task"
      /\ ExtractedTitle(result) = ""
      /\ result.text.template = "create: what task would you like to create?"

\* a call of getLocalResponse or searchTasks that is answered in this step
\* without a network request
AnsweredWithoutNetwork ==
  /\ pc = "idle"
  /\ pc' = "done"
  /\ op' \in {"getLocalResponse", "searchTasks"}

\* what the same call gives when it is made again on the helper's list as
\* this step leaves it
AskedAgain ==
  IF op' = "searchTasks" THEN searchTasks(tasks', query')
  ELSE getLocalResponse(tasks', query')

\* C14: no local response branch, create_task included, and no search adds,
\* removes, reorders or modifies a task: once the dashboard is shown,
\* this.tasks is the same list after every step of every sequence of calls;
\* and a call answered without a network request yields the result the same
\* query yields on the same snapshot when it is asked again.
C14_LocalCallsLeaveTasksAlone ==
  [][ /\ ~loading => tasks' = tasks
      /\ AnsweredWithoutNetwork => result' = AskedAgain ]_vars

\* a creation query has been answered on a snapshot of three tasks
C14_Witness ==
  /\ pc = "done"
  /\ op = "getLocalResponse"
  /\ query = "create task: Fix login bug"
  /\ Len(tasks) = 3
  /\ ExtractedTitle(result) = "Fix login bug"

\* the texts of the five searched fields of a task that are present
SearchedFields(task) ==
  {task.title, task.id, task.status} \cup task.description \cup task.assignee

\* the lower-cased term is a substring of a lower-cased searched field
TaskMatches(task, term) ==
  \E field \in SearchedFields(task) : includes(toLowerCase(field), toLowerCase(term))

\* C15: searchTasks(term) returns exactly the tasks for which the lower-cased
\* term is a substring of the lower-cased title, description (if present),
\* id, status or assignee (if present): every returned task is a matching
\* task of the snapshot, every matching task is returned, once, and the
\* result keeps the relative order of the snapshot.
C15_SearchReturnsExactlyMatches ==
  (pc = "done" /\ op = "searchTasks") =>
    \E at \in [1..Len(result) -> 1..Len(tasks)] :
      /\ \A i \in 1..Len(result) : result[i] = tasks[at[i]]
      /\ \A i, j \in 1..Len(result) : i < j => at[i] < at[j]
      /\ \A k \in 1..Len(tasks) :
           TaskMatches(tasks[k], query) <=> \E i \in 1..Len(result) : at[i] = k

\* 'login' is found in the title of J-1 and in the description of J-2 only,
\* with a task between them that does not match
C15_Witness ==
  /\ pc = "done"
  /\ op = "searchTasks"
  /\ query = "login"
  /\ Len(tasks) = 3
  /\ tasks[1].id = "J-2"
  /\ tasks[3].id = "J-1"
  /\ Len(result) = 2
  /\ result[1].id = "J-2"
  /\ result[2].id = "J-1"

RECURSIVE SumOfCounts(_)
\* the sum of the counts of a list of <<key, count>> entries
SumOfCounts(entries) ==
  IF entries = <<>> THEN 0 ELSE entries[1][2] + SumOfCounts(Tail(entries))

\* C16: for every task snapshot the per-status counts of the summary response
\* and of the Task Summary widget sum to the number of tasks, and the total
\* each of them reports is the number of tasks.
C16_StatusCountsSumToTotal ==
  /\ (AnsweredLocally /\ ResultKind(result) = "summary") =>
       /\ SumOfCounts(result.text.statusLines) = Len(tasks)
       /\ result.text.total = Len(tasks)
  /\ (pc = "done" /\ op = "TaskSummaryWidget") =>
       /\ SumOfCounts(result.statusCounts) = Len(tasks)
       /\ result.totalTasks = Len(tasks)

\* the widget has counted three tasks two of which share a status
C16_Witness ==
  /\ pc = "done"
  /\ op = "TaskSummaryWidget"
  /\ Len(tasks) = 3
  /\ Len(result.statusCounts) = 2
  /\ result.totalTasks = 3

\* the request for the task list has failed
TasksFetchFailed == ~loading /\ tasksReply.outcome \in {"rejected", "not ok"}

\* C19: when the request for the task list fails, the application goes on
\* with the static mock task list and sets no user-facing error: the task
\* list shown is the mock list and the error state is empty.
C19_FailedFetchFallsBackToMock ==
  TasksFetchFailed =>
    /\ tasks = mockTasks
    /\ error = JsNull

\* C17: the summary text has a progress line if and only if at least one
\* task is 'Done'; the percentage shown is done / total * 100 rounded to the
\* nearest integer, halves rounded up, and lies within 1..100; for one task
\* in progress and two done it is 67.
C17_ProgressIsRoundedShare ==
  (AnsweredLocally /\ ResultKind(result) = "summary") =>
    LET done == StatusCount("Done")
        total == Len(tasks)
    IN  /\ result.text.completion # {} <=> done >= 1
        /\ \A percent \in result.text.completion :
             /\ percent = (200 * done + total) \div (2 * total)
             /\ percent \in 1..100
        /\ (total = 3 /\ done = 2 /\ StatusCount("In Progress") = 1) =>
             result.text.completion = {67}

\* the query holds a '?', but not as its last character, and nothing else
\* that selects a rule: no keyword of the rules before help, no 'help' and
\* no 'what can'
QuestionMarkInside ==
  LET lowerQuery == toLowerCase(query)
  IN  /\ includes(query, "?")
      /\ CharAt(query, Len(query)) # "?"
      /\ \A k \in 1..10 : ~RuleMatches(k, lowerQuery)
      /\ ~includesAny(lowerQuery, {"help", "what can"})

\* C20: in local resolution a '?' makes a query a help query only when it is
\* the last character of the query: a query that matches no earlier rule,
\* holds neither 'help' nor 'what can' and has '?' only before its end is
\* resolved by the search/unknown fallback, not as help.
C20_OnlyTrailingQuestionMarkIsHelp ==
  (AnsweredLocally /\ QuestionMarkInside) =>
    ResultKind(result) \in {"search", "unknown"}

\* the chart tab shows a grouping by week
WeekChartDrawn ==
  /\ activeTab = "chart"
  /\ Len(issues) > 0
  /\ chartGroupBy \in DateGroupings

\* the issues whose date of the grouping lies in the j-th of the four
\* trailing weeks that end at now, the oldest week first
TrailingWeek(j) ==
  { k \in 1..Len(issues) :
      \E date \in dateOf(issues[k], chartGroupBy) :
        /\ date >= now - ((5 - j) * Week)
        /\ date < now - ((4 - j) * Week) }

\* C18: in the 4-week date grouping of the issues page (resolved, due,
\* start, created, updated) the four buckets partition the four trailing
\* weeks that end at now: bucket j counts exactly the issues whose date lies
\* in the half-open j-th trailing week, so every issue dated within
\* [now - 28 days, now) is counted once and no other issue is counted;
\* buckets and labels run from the oldest week to the newest; and the
\* average is the exact sum of the buckets divided by 4.
C18_BucketsPartitionTrailingWeeks ==
  WeekChartDrawn =>
    LET counts == chartData.datasets[1].data
    IN  /\ Len(counts) = 4
        /\ \A j \in 1..4 : counts[j] = Cardinality(TrailingWeek(j))
        /\ \A j \in 1..3 : chartData.labels[j] < chartData.labels[j + 1]
        /\ \A j \in 1..4 :
             chartData.datasets[2].data[j] =
               [dividend |-> counts[1] + counts[2] + counts[3] + counts[4],
                divisor |-> 4]

\* C21: the documented example query "What's user1 working on?" is answered
\* locally as the lookup of the tasks of user1@example.com: the result is the
\* assignee lookup of user1, its count is the number of tasks assigned to
\* user1 and it recommends the 'bar' chart.
C21_User1ExampleIsAssigneeLookup ==
  (AnsweredLocally /\ query = "What's user1 working on?") =>
    /\ ResultKind(result) = "assignee_lookup user1"
    /\ result.taskCount =
         Cardinality({ i \in 1..Len(tasks) :
                         \E a \in tasks[i].assignee : includes(a, "user1") })
    /\ result.chartRecommendation = "bar"

\* C22: the example query "What needs to be done?" of the help text is
\* answered locally with the pending tasks: a to_do result that counts the
\* tasks whose status is 'To Do' and recommends the 'table' chart.
C22_NeedsToBeDoneIsPending ==
  (AnsweredLocally /\ query = "What needs to be done?") =>
    /\ ResultKind(result) = "to_do"
    /\ result.taskCount = StatusCount("To Do")
    /\ result.chartRecommendation = "table"

\* the search widget displays the answer to the query q: the text, the chart
\* recommendation and the suggested actions of a response getResponse(q) can
\* resolve to, and the tasks searchTasks(q) finds
DisplaysAnswerTo(q) ==
  \E reply \in WidgetAiReplies, analytics \in WidgetAnalyticsReplies :
    LET response == awaitGetResponse(tasks, q, reply, analytics)
    IN  /\ ToString(widget.aiResponse) = ToString(response.text)
        /\ widget.chartRecommendation = response.chartRecommendation
        /\ widget.suggestedActions = response.suggestedActions
        /\ widget.searchResults = searchTasks(tasks, q)

\* the search widget displays no answer
DisplaysNothing ==
  /\ ToString(widget.aiResponse) = ToString("")
  /\ widget.chartRecommendation = JsNull
  /\ widget.suggestedActions = <<>>
  /\ widget.searchResults = <<>>

\* C23: searches overlap, and once every pending request has settled the
\* search widget displays the answer to the last query entered: the response
\* to an older query never replaces that of a newer one, and after
\* clearSearch or an empty query nothing of an earlier request is displayed.
C23_LastQueryWins ==
  (~loading /\ pending = <<>>) =>
    IF trim(widget.query) = "" THEN DisplaysNothing ELSE DisplaysAnswerTo(widget.query)

\* the entries of a search history differ from one another
NoRepeats(history) ==
  \A i, j \in 1..Len(history) : i # j => history[i] # history[j]

\* C24: the search history never holds more than 5 entries, never holds the
\* same query twice and never holds an empty or whitespace-only query, also
\* when searches for the same query overlap; a query that is recorded is
\* placed first, before the entries that were there.
C24_HistoryIsShortAndDistinct ==
  [][ LET before == widget.searchHistory
          after == widget'.searchHistory
      IN  /\ Len(after) <= 5
          /\ NoRepeats(after)
          /\ \A i \in 1..Len(after) : trim(after[i]) # ""
          /\ after # before =>
               /\ Len(after) > 0
               /\ Tail(after) = SubSeq(before, 1, Len(after) - 1) ]_vars

\* C25: after the search box is cleared (clearSearch, or an input that is
\* empty or whitespace-only) the task list of the dashboard is 'Recent Tasks'
\* again, over the full task list with the limit of 5; it is 'Search Results
\* for ...' only while a non-empty query is active.
C25_ClearedSearchShowsRecentTasks ==
  (~loading /\ pending = <<>> /\ trim(widget.query) = "") =>
    TaskListWidget(dashboard, tasks) =
      [tasks |-> tasks, title |-> <<"Recent Tasks">>, maxTasks |-> 5]

\* C26: the chart the dashboard shows is the one recommended for the most
\* recently answered query, whose recommendation the search widget holds:
\* after an answer without a chart recommendation (create_task, help,
\* unknown) or after the search is cleared the dashboard shows no chart.
C26_ChartFollowsLatestAnswer ==
  (~loading) =>
    IF truthy(widget.chartRecommendation)
    THEN \E chart \in ChartWidget(dashboard, tasks) :
           chart.chartType = widget.chartRecommendation
    ELSE ChartWidget(dashboard, tasks) = {}

\* the backend answered the query with a JSON object that carries chart_data
AnsweredWithChartData ==
  /\ pc = "done"
  /\ op = "getResponse"
  /\ outcome = "resolved"
  /\ aiReply.outcome = "json object"
  /\ "chart_data" \in DOMAIN aiReply.value

\* C27: the remote and the local path of getResponse return results of one
\* shape: when the answer of /api/ai/query carries chart_data the result
\* carries it as chartData, as the local weekly result carries the analytics,
\* so that a 'weekly_trend' chart is drawn from the weekly analytics.
C27_RemoteResultCarriesChartData ==
  AnsweredWithChartData =>
    /\ "chartData" \in DOMAIN result
    /\ result.chartData = aiReply.value.chart_data

\* C28: on the issues page every non-empty natural-language query appends
\* one user message and then, when its request settles, one assistant or
\* error message; messages are never removed or reordered; loading is true
\* exactly while a request is under way, whether it succeeds or fails; an
\* empty or whitespace-only query is never sent and leaves no message.
C28_ChatRecordsEveryQuery ==
  [][ LET before == page.chatHistory
          after == page'.chatHistory
      IN  /\ Len(after) \in { Len(before), Len(before) + 1 }
          /\ SubSeq(after, 1, Len(before)) = before
          /\ \A i \in 1..Len(after) :
               IF i % 2 = 1
               THEN after[i].type = "user" /\ trim(after[i].content) # ""
               ELSE after[i].type \in { "assistant", "error" }
          /\ (Len(after) % 2 = 1) =
               (\E request \in pageRequest' : request.path = "/api/jql/convert")
          /\ page'.loading = (pageRequest' # {}) ]_vars

\* a query was answered and the next one failed
C28_Witness ==
  /\ ~page.loading
  /\ Len(page.chatHistory) = 4
  /\ page.chatHistory[1] = userMessage("Show me all issues")
  /\ page.chatHistory[2].type = "assistant"
  /\ page.chatHistory[3] = userMessage("bugs")
  /\ page.chatHistory[4] = errorMessage

\* the range the pagination bar of the page displays
DisplayedRange == pagedIssues(paged.totalCount, paged.startAt)

\* C29: in the paginated issues page a click on Next or Previous executes
\* the current JQL again with start_at equal to the offset it selects
\* (startAt + maxResults, or max(0, startAt - maxResults)), so that the
\* issues shown are those of the displayed range; and a natural-language
\* query is sent with start_at 0.
C29_RequestsCarrySelectedOffset ==
  /\ \A request \in pagedRequest :
       IF request.path = "/api/jql/execute"
       THEN request.body.start_at = paged.startAt
       ELSE request.body.start_at = 0
  /\ (paged.mounted /\ ~paged.loading /\ paged.error = JsNull) =>
       paged.issues = DisplayedRange

\* every coordinate of a rendering of the weekly trend chart
Coordinates(chart) ==
  { chart.yAxisLabels[k] : k \in 1..Len(chart.yAxisLabels) }
    \cup { chart.averageLine[k] : k \in 1..Len(chart.averageLine) }
    \cup UNION { { chart.polyline[i][1], chart.polyline[i][2] } :
                   i \in 1..Len(chart.polyline) }
    \cup UNION { { chart.dataPoints[i][1], chart.dataPoints[i][2] } :
                   i \in 1..Len(chart.dataPoints) }
    \cup UNION { { chart.xAxisLabels[i][1], chart.xAxisLabels[i][2] } :
                   i \in 1..Len(chart.xAxisLabels) }

\* C30: the weekly trend chart never divides by zero: for analytics whose
\* weekly counts and average are all 0 every coordinate of a point, a line
\* or an axis label is a finite number.
C30_TrendChartOfNoResolvedTasksIsFinite ==
  \A chart \in trendChart :
    chart.data.total_resolved = 0 =>
      \A coordinate \in Coordinates(chart) : coordinate.kind = "finite"

====
